---- MODULE Spec2Model ----
(***************************************************************************)
(* SkyWidget alerting core: the rule engine (alerts/engine.rs, rules.rs),  *)
(* the notifier (alerts/notifier.rs) and the two bounded stores            *)
(* (storage/alerts_store.rs, storage/metrics.rs).                          *)
(*                                                                         *)
(* f32 values are fixed-point integers, one unit = 0.0001 (F(80) is 80.0). *)
(* The wall clock is nowMs, in milliseconds; chrono's timestamp() is its   *)
(* whole seconds.  Option<i64> is a record [some, v].                      *)
(***************************************************************************)
EXTENDS Integers, Sequences, FiniteSets, TLC

(***************************************************************************)
(* Bounds of the model                                                     *)
(***************************************************************************)
MaxNowMs == 300000
MaxAddedRules == 1
MaxCapacity == 2
MaxAppends == 4

ClockSteps == {150000}

F(x) == x * 10000

None == [some |-> FALSE, v |-> 0]
Some(x) == [some |-> TRUE, v |-> x]

Last(s) == s[Len(s)]

\* the last n elements of s (all of s when it has fewer)
LastN(s, n) == IF Len(s) > n THEN SubSeq(s, Len(s) - n + 1, Len(s)) ELSE s

(***************************************************************************)
(* alerts/rules.rs                                                         *)
(***************************************************************************)
Cond(tag, threshold) ==
    [tag |-> tag, threshold |-> threshold, metric_name |-> "", operator |-> ""]

Custom(metric_name, threshold, operator) ==
    [tag |-> "Custom", threshold |-> threshold,
     metric_name |-> metric_name, operator |-> operator]

DefaultCooldown == 300

AlertRule_new(id, name, condition, severity) ==
    [id |-> id, name |-> name, condition |-> condition, severity |-> severity,
     enabled |-> TRUE, cooldown_seconds |-> DefaultCooldown,
     last_triggered |-> None, notify_nodes |-> <<>>]

Has(metrics, key) == key \in DOMAIN metrics

\* f32::NAN, a value outside the fixed-point range; the comparisons of f32 are
\* false when an operand is NaN and its arithmetic yields NaN
NaN == -1000000000

IsNaN(x) == x = NaN

FGt(a, b) == ~IsNaN(a) /\ ~IsNaN(b) /\ a > b
FLt(a, b) == ~IsNaN(a) /\ ~IsNaN(b) /\ a < b
FGe(a, b) == ~IsNaN(a) /\ ~IsNaN(b) /\ a >= b
FSub(a, b) == IF IsNaN(a) \/ IsNaN(b) THEN NaN ELSE a - b

\* Above with >= for >
Above_inclusive(metrics, key, threshold) ==
    IF Has(metrics, key) THEN FGe(metrics[key], threshold) ELSE FALSE

\* `if let Some(&v) = metrics.get(key) { v > threshold } else { false }`
\* a comparison that falls back on any other metric when the key is missing
Above_with_fallback(metrics, key, threshold) ==
    IF Has(metrics, key) THEN FGt(metrics[key], threshold)
    ELSE \E other \in DOMAIN metrics : FGt(metrics[other], threshold)

Above(metrics, key, threshold) ==
    IF Has(metrics, key) THEN FGt(metrics[key], threshold) ELSE FALSE

Abs(x) == IF IsNaN(x) THEN NaN ELSE IF x < 0 THEN -x ELSE x

\* 0.001
Epsilon == 10

\* the Custom arm with "==" and "!=" compared without the epsilon
custom_holds_exact(c, metrics) ==
    IF Has(metrics, c.metric_name)
    THEN LET value == metrics[c.metric_name]
         IN  CASE c.operator = ">" -> FGt(value, c.threshold)
               [] c.operator = "<" -> FLt(value, c.threshold)
               [] c.operator = "==" -> ~IsNaN(value) /\ value = c.threshold
               [] c.operator = "!=" -> ~IsNaN(value) /\ value # c.threshold
               [] OTHER -> FALSE
    ELSE FALSE

\* the Custom arm of should_trigger
custom_holds(c, metrics) ==
    IF Has(metrics, c.metric_name)
    THEN LET value == metrics[c.metric_name]
         IN  CASE c.operator = ">" -> FGt(value, c.threshold)
               [] c.operator = "<" -> FLt(value, c.threshold)
               [] c.operator = "==" -> FLt(Abs(FSub(value, c.threshold)), Epsilon)
               [] c.operator = "!=" -> FGe(Abs(FSub(value, c.threshold)), Epsilon)
               [] OTHER -> FALSE
    ELSE FALSE

condition_holds(c, metrics) ==
    CASE c.tag = "CpuUsageAbove" -> Above(metrics, "cpu_usage", c.threshold)
      [] c.tag = "MemoryUsageAbove" -> Above(metrics, "memory_usage_percent", c.threshold)
      [] c.tag = "DiskUsageAbove" -> Above(metrics, "disk_usage_percent", c.threshold)
      [] c.tag = "CpuTemperatureAbove" -> Above(metrics, "cpu_temperature", c.threshold)
      [] c.tag = "ChipsetTemperatureAbove" -> Above(metrics, "chipset_temperature", c.threshold)
      [] c.tag = "FanStopped" -> Above(metrics, "fans_stopped_count", 0)
      [] c.tag = "FanSlowSpeed" -> Above(metrics, "fans_slow_speed_count", 0)
      [] c.tag = "DiskTemperatureAbove" -> Above(metrics, "disk_max_temperature", c.threshold)
      [] c.tag = "DiskHealthWarning" ->
            IF Has(metrics, "disk_warning_count")
            THEN FGt(metrics["disk_warning_count"], 0)
            ELSE Above(metrics, "disk_critical_count", 0)
      [] c.tag = "VoltageAbnormal" -> Above(metrics, "voltage_abnormal_count", 0)
      [] c.tag = "MemoryTemperatureAbove" -> Above(metrics, "memory_temperature", c.threshold)
      [] c.tag = "MemoryErrors" -> Above(metrics, "memory_uncorrectable_errors", 0)
      [] c.tag = "Custom" -> custom_holds(c, metrics)

\* should_trigger with the cooldown test left out
should_trigger_without_cooldown(rule, metrics, now) ==
    IF ~rule.enabled THEN FALSE ELSE condition_holds(rule.condition, metrics)

\* should_trigger with the enabled test left out
should_trigger_ignoring_enabled(rule, metrics, now) ==
    IF rule.last_triggered.some
       /\ now - rule.last_triggered.v < rule.cooldown_seconds
    THEN FALSE
    ELSE condition_holds(rule.condition, metrics)

\* now is chrono::Utc::now().timestamp(), read only when last_triggered is set
should_trigger(rule, metrics, now) ==
    IF ~rule.enabled THEN FALSE
    ELSE IF rule.last_triggered.some
            /\ now - rule.last_triggered.v < rule.cooldown_seconds
         THEN FALSE
         ELSE condition_holds(rule.condition, metrics)

\* metrics.get(key).unwrap_or(&0.0)
UnwrapOr0(metrics, key) == IF Has(metrics, key) THEN metrics[key] ELSE 0

\* the rendered text, kept as the values it is formatted from
generate_message(rule, metrics) ==
    LET c == rule.condition
        shown ==
          CASE c.tag = "CpuUsageAbove" -> UnwrapOr0(metrics, "cpu_usage")
            [] c.tag = "MemoryUsageAbove" -> UnwrapOr0(metrics, "memory_usage_percent")
            [] c.tag = "DiskUsageAbove" -> UnwrapOr0(metrics, "disk_usage_percent")
            [] c.tag = "CpuTemperatureAbove" -> UnwrapOr0(metrics, "cpu_temperature")
            [] c.tag = "ChipsetTemperatureAbove" -> UnwrapOr0(metrics, "chipset_temperature")
            [] c.tag = "FanStopped" -> UnwrapOr0(metrics, "fans_stopped_count")
            [] c.tag = "FanSlowSpeed" -> UnwrapOr0(metrics, "fans_slow_speed_count")
            [] c.tag = "DiskTemperatureAbove" -> UnwrapOr0(metrics, "disk_max_temperature")
            [] c.tag = "DiskHealthWarning" ->
                  IF FGt(UnwrapOr0(metrics, "disk_critical_count"), 0)
                  THEN UnwrapOr0(metrics, "disk_critical_count")
                  ELSE UnwrapOr0(metrics, "disk_warning_count")
            [] c.tag = "VoltageAbnormal" -> UnwrapOr0(metrics, "voltage_abnormal_count")
            [] c.tag = "MemoryTemperatureAbove" -> UnwrapOr0(metrics, "memory_temperature")
            [] c.tag = "MemoryErrors" -> UnwrapOr0(metrics, "memory_uncorrectable_errors")
            [] c.tag = "Custom" -> 0
    IN  [name |-> rule.name, tag |-> c.tag, shown |-> shown, threshold |-> c.threshold]

\* mark_triggered that stores nothing
mark_triggered_not_stored(rule, now) == rule

mark_triggered(rule, now) == [rule EXCEPT !.last_triggered = Some(now)]

default_rules ==
    << AlertRule_new("cpu_high", "CPU high load", Cond("CpuUsageAbove", F(80)), "Warning"),
       AlertRule_new("cpu_critical", "CPU critical", Cond("CpuUsageAbove", F(95)), "Critical"),
       AlertRule_new("memory_high", "Memory high load", Cond("MemoryUsageAbove", F(85)), "Warning"),
       AlertRule_new("disk_high", "Disk high load", Cond("DiskUsageAbove", F(90)), "Warning"),
       AlertRule_new("chipset_warning", "Chipset temperature warning",
                     Cond("ChipsetTemperatureAbove", F(60)), "Warning"),
       AlertRule_new("chipset_critical", "Chipset temperature critical",
                     Cond("ChipsetTemperatureAbove", F(70)), "Critical"),
       AlertRule_new("fan_stopped", "Fan stopped", Cond("FanStopped", 0), "Critical"),
       AlertRule_new("fan_slow_speed", "Fan slow speed", Cond("FanSlowSpeed", 0), "Warning"),
       AlertRule_new("nvme_temp_high", "NVMe/SSD temperature high",
                     Cond("DiskTemperatureAbove", F(70)), "Warning"),
       AlertRule_new("nvme_temp_critical", "NVMe/SSD temperature critical",
                     Cond("DiskTemperatureAbove", F(80)), "Critical"),
       AlertRule_new("disk_health_warning", "Disk health warning",
                     Cond("DiskHealthWarning", 0), "Error"),
       AlertRule_new("voltage_abnormal", "Voltage abnormal", Cond("VoltageAbnormal", 0), "Warning"),
       AlertRule_new("memory_temp_high", "Memory temperature high",
                     Cond("MemoryTemperatureAbove", F(75)), "Warning"),
       AlertRule_new("memory_errors_critical", "Memory errors critical",
                     Cond("MemoryErrors", 0), "Critical") >>

(***************************************************************************)
(* monitors/fan.rs                                                         *)
(***************************************************************************)
FLe(a, b) == ~IsNaN(a) /\ ~IsNaN(b) /\ a <= b

\* FanMonitor::new(): slow_speed_threshold: 500.0
DefaultSlowSpeedThreshold == F(500)

\* determine_fan_status that counts a fan at the threshold as slow
determine_fan_status_inclusive(rpm, threshold) ==
    IF ~rpm.some THEN "Unknown"
    ELSE IF FLe(rpm.v, 0) THEN "Stopped"
    ELSE IF FLe(rpm.v, threshold) THEN "SlowSpeed"
    ELSE "Running"

\* rpm is the Option<f32> reading, threshold is self.slow_speed_threshold
determine_fan_status(rpm, threshold) ==
    IF ~rpm.some THEN "Unknown"
    ELSE IF FLe(rpm.v, 0) THEN "Stopped"
    ELSE IF FLt(rpm.v, threshold) THEN "SlowSpeed"
    ELSE "Running"

(***************************************************************************)
(* storage/alerts_store.rs                                                 *)
(***************************************************************************)
\* add_record that never evicts
add_record_without_eviction(recs, max, rule_id, rule_name, msg, severity, id, ts) ==
    Append(recs, [id |-> id, rule_id |-> rule_id, rule_name |-> rule_name,
                  message |-> msg, severity |-> severity, timestamp |-> ts,
                  acknowledged |-> FALSE])

\* add_record that evicts with pop_back instead of pop_front
add_record_evicting_newest(recs, max, rule_id, rule_name, msg, severity, id, ts) ==
    LET pushed == Append(recs, [id |-> id, rule_id |-> rule_id, rule_name |-> rule_name,
                                message |-> msg, severity |-> severity, timestamp |-> ts,
                                acknowledged |-> FALSE])
    IN  IF Len(pushed) > max THEN SubSeq(pushed, 1, Len(pushed) - 1) ELSE pushed

\* id is the fresh uuid, ts is timestamp_millis()
add_record(recs, max, rule_id, rule_name, msg, severity, id, ts) ==
    LET record == [id |-> id, rule_id |-> rule_id, rule_name |-> rule_name,
                   message |-> msg, severity |-> severity, timestamp |-> ts,
                   acknowledged |-> FALSE]
        pushed == Append(recs, record)
    IN  IF Len(pushed) > max THEN Tail(pushed) ELSE pushed

get_all_records(recs) == recs

HoldsRecord(recs, record_id) == \E k \in 1..Len(recs) : recs[k].id = record_id

\* acknowledge that flags every record once the id is found
acknowledge_every_record(recs, record_id) ==
    IF HoldsRecord(recs, record_id)
    THEN [k \in 1..Len(recs) |-> [recs[k] EXCEPT !.acknowledged = TRUE]]
    ELSE recs

\* acknowledge that flips the flag instead of setting it
acknowledge_toggling(recs, record_id) ==
    [k \in 1..Len(recs) |->
        IF recs[k].id = record_id
        THEN [recs[k] EXCEPT !.acknowledged = ~recs[k].acknowledged]
        ELSE recs[k]]

\* iter_mut().find(): the first record with that id
acknowledge(recs, record_id) ==
    IF HoldsRecord(recs, record_id)
    THEN LET k == CHOOSE k \in 1..Len(recs) :
                     /\ recs[k].id = record_id
                     /\ \A j \in 1..(k - 1) : recs[j].id # record_id
         IN  [recs EXCEPT ![k].acknowledged = TRUE]
    ELSE recs

clear(recs) == <<>>

(***************************************************************************)
(* storage/metrics.rs                                                      *)
(***************************************************************************)
EmptyMap == [k \in {} |-> 0]

\* data.entry(name).or_insert_with(Vec::new)
Points(d, metric_name) == IF metric_name \in DOMAIN d THEN d[metric_name] ELSE <<>>

\* add_metric that never trims
add_metric_without_trim(d, max, metric_name, value, ts) ==
    [m \in DOMAIN d \cup {metric_name} |->
        IF m = metric_name
        THEN Append(Points(d, metric_name), [timestamp |-> ts, value |-> value])
        ELSE d[m]]

\* ts is timestamp_millis()
add_metric(d, max, metric_name, value, ts) ==
    LET pushed == Append(Points(d, metric_name), [timestamp |-> ts, value |-> value])
        kept == IF Len(pushed) > max
                THEN SubSeq(pushed, Len(pushed) - max + 1, Len(pushed))
                ELSE pushed
    IN  [m \in DOMAIN d \cup {metric_name} |-> IF m = metric_name THEN kept ELSE d[m]]

cleanup_old_data(d, max_age_seconds, ms) ==
    LET cutoff_time == ms - (max_age_seconds * 1000)
        Fresh(p) == p.timestamp > cutoff_time
    IN  [m \in DOMAIN d |-> SelectSeq(d[m], Fresh)]

RECURSIVE SumValues(_)
\* points[start..].iter().map(|p| p.value).sum()
SumValues(points) ==
    IF points = <<>> THEN 0 ELSE Head(points).value + SumValues(Tail(points))

\* f32 division of a sum by a count: 0.0 / 0.0 is NaN; the quotient is
\* rounded to the fixed-point grid
FDiv(sum, count) == IF count = 0 THEN NaN ELSE sum \div count

\* get_average(metric_name, last_n_points)
get_average(d, metric_name, last_n_points) ==
    IF metric_name \notin DOMAIN d THEN None
    ELSE LET points == d[metric_name]
             start == IF Len(points) > last_n_points
                      THEN Len(points) - last_n_points
                      ELSE 0
         IN  IF points = <<>> THEN None
             ELSE Some(FDiv(SumValues(SubSeq(points, start + 1, Len(points))),
                            Len(points) - start))

(***************************************************************************)
(* alerts/notifier.rs: target resolution of send_alert                     *)
(***************************************************************************)
Contains(ids, id) == \E k \in 1..Len(ids) : ids[k] = id

\* resolve_targets that broadcasts whatever the list holds
resolve_targets_ignoring_list(remote, target_node_ids) == remote

resolve_targets(remote, target_node_ids) ==
    LET Listed(node) == Contains(target_node_ids, node.id)
    IN  IF target_node_ids = <<>> THEN remote ELSE SelectSeq(remote, Listed)

(***************************************************************************)
(* alerts/engine.rs: the snapshot                                          *)
(***************************************************************************)
\* what the monitors report at one collection
Reading(cpu_usage, chipset_temp) ==
    [cpu_usage |-> cpu_usage, memory_usage_percent |-> F(40), memory_used_gb |-> F(6),
     disk_usage_percent |-> F(55), cpu_avg_temp |-> None, chipset_temp |-> chipset_temp,
     stopped_count |-> 0, slow_speed_count |-> 0, total_count |-> 2]

Readings == { Reading(c, None) : c \in {F(80), F(85)} }

collect_metrics(r) ==
    LET base == [k \in {"cpu_usage", "memory_usage_percent", "memory_used_gb",
                        "disk_usage_percent", "fans_stopped_count",
                        "fans_slow_speed_count", "fans_total_count"} |->
                   CASE k = "cpu_usage" -> r.cpu_usage
                     [] k = "memory_usage_percent" -> r.memory_usage_percent
                     [] k = "memory_used_gb" -> r.memory_used_gb
                     [] k = "disk_usage_percent" -> r.disk_usage_percent
                     [] k = "fans_stopped_count" -> F(r.stopped_count)
                     [] k = "fans_slow_speed_count" -> F(r.slow_speed_count)
                     [] k = "fans_total_count" -> F(r.total_count)]
        cpu_temp == IF r.cpu_avg_temp.some
                    THEN ("cpu_temperature" :> r.cpu_avg_temp.v) ELSE EmptyMap
        chipset == IF r.chipset_temp.some
                   THEN ("chipset_temperature" :> r.chipset_temp.v) ELSE EmptyMap
    IN  base @@ cpu_temp @@ chipset

(***************************************************************************)
(* State                                                                   *)
(***************************************************************************)
VARIABLES
    nowMs,            \* the wall clock, milliseconds
    rules,            \* AlertEngine.rules: Vec<AlertRule>
    rulesLock,        \* holder of the rule-set write lock: "free" or "tick"
    pc,               \* position of the engine task in its loop
    idx,              \* position of `for rule in rules_guard.iter_mut()`
    metrics,          \* the snapshot of the current tick
    message,          \* the message of the rule being triggered
    ruleUuids,        \* uuids generated for rules so far
    records,          \* AlertsStore.records
    max_records,      \* AlertsStore.max_records
    recUuids,         \* uuids generated for records so far
    added,            \* ids passed through add_record since the last clear
    remote_nodes,     \* AlertNotifier.remote_nodes: Vec<NodeInfo>
    remoteReaders,    \* read guards held on remote_nodes
    npc,              \* position of send_alert
    nargs,            \* arguments of the running send_alert
    targets,          \* targets not yet attempted
    attempts,         \* delivery attempts of the running send_alert
    registryAtDispatch, \* remote_nodes as send_alert read it
    result,           \* what the last UI command returned
    call,             \* the last rule command, where the commands are logged
    data,             \* MetricsStore.data
    max_data_points,  \* MetricsStore.max_data_points
    appended,         \* per metric, the points passed to add_metric
    swept,            \* metrics from which a sweep has removed a point
    discovered_nodes, \* DiscoveryService.discovered_nodes: HashMap<String, NodeInfo>
    rpc,              \* position of the discovery refresh task in its loop
    rnodes,           \* `nodes` of the discovery refresh task
    channel,          \* the events the mDNS daemon has sent and the browse thread not yet received
    daemon,           \* "running", or "shutdown" once the sender of the channel is dropped
    bpc,              \* position of the browse thread: "recv" or "stopped"
    handled,          \* the events handle_service_event has been called with, in order
    fan_rpm,          \* the reading determine_fan_status is called with
    slow_speed_threshold, \* FanMonitor.slow_speed_threshold
    fan_status,       \* what determine_fan_status returned
    dispatches,       \* number of send_alert calls made by the engine task
    stamps,           \* number of mark_triggered calls made by the engine task
    shown,            \* alert of the running send_alert once its local notification is out
    job,              \* per task, the operation it is running
    tpc,              \* per task, its position in the lock requests of that operation
    queue,            \* per lock, the tasks waiting for it, in order of request
    held              \* per lock, the guards that exist: <<task, mode>>

engineVars == <<rules, rulesLock, pc, idx, metrics, message, ruleUuids>>
storeVars == <<records, max_records, recUuids, added>>
notifierVars == <<remote_nodes, remoteReaders, npc, nargs, targets, attempts,
                 registryAtDispatch>>
metricsVars == <<data, max_data_points, appended, swept>>
uiVars == <<result, call>>
discoveryVars == <<discovered_nodes, rpc, rnodes>>
browseVars == <<channel, daemon, bpc, handled>>
monitorVars == <<fan_rpm, slow_speed_threshold, fan_status>>
ghostVars == <<dispatches, stamps, shown>>
lockVars == <<job, tpc, queue, held>>
vars == <<nowMs, engineVars, storeVars, notifierVars, uiVars, metricsVars, discoveryVars,
          browseVars, monitorVars, ghostVars, lockVars>>

\* chrono::Utc::now().timestamp() and .timestamp_millis()
timestamp == nowMs \div 1000
timestamp_millis == nowMs

RuleUuid(n) == "rule-uuid-" \o ToString(n)
RecordUuid(n) == "record-uuid-" \o ToString(n)

NoArgs == [alert_id |-> "", alert_name |-> "", severity |-> "", target_node_ids |-> <<>>]

NoCall == [op |-> "none", rule_id |-> "", enabled |-> FALSE, known |-> FALSE]

HistoryCapacity == 1000

\* everything but the rule set and the snapshot
(***************************************************************************)
(* Locks.  Every task is a sequence of await points: a request for a       *)
(* tokio RwLock (granted in order of request), a lock() of the std Mutex   *)
(* of the discovery map (granted in no particular order), or a wait for a  *)
(* timer, a request or a delivery.  What a task does between two await     *)
(* points, the guards it drops included, is one step.                      *)
(***************************************************************************)
Tasks == {"tick", "metrics", "refresh", "sync", "browse", "http", "ui"}

Locks == {"rules", "alerts_store", "metrics_store", "cpu_monitor", "memory_monitor",
          "disk_monitor", "temperature_monitor", "fan_monitor", "node_info",
          "discovered_nodes", "api_discovered_nodes", "alert_engine", "discovery_map"}

\* std::sync::Mutex makes no promise about the order in which waiters get the lock
Unordered == {"discovery_map"}

\* x.read().await, x.write().await or x.lock(), and the guards dropped before the next await
Acq(lock, mode, release) == [op |-> "acq", lock |-> lock, mode |-> mode, release |-> release]

\* any other await, and the guards dropped before the next await
Await(release) == [op |-> "await", lock |-> "", mode |-> "", release |-> release]

collect_metrics_locks ==
    << Acq("cpu_monitor", "write", {"cpu_monitor"}),
       Acq("memory_monitor", "write", {"memory_monitor"}),
       Acq("disk_monitor", "write", {"disk_monitor"}),
       Acq("temperature_monitor", "write", {"temperature_monitor"}),
       Acq("fan_monitor", "write", {"fan_monitor"}) >>

send_alert_locks ==
    << Acq("node_info", "read", {}),
       Acq("discovered_nodes", "read", {}),
       Await({"discovered_nodes", "node_info", "rules"}) >>

refresh_task_holding_map ==
    << Acq("discovery_map", "write", {}),
       Acq("discovered_nodes", "write", {}),
       Acq("discovery_map", "write", {"discovery_map", "discovered_nodes"}) >>
refresh_task ==
    << Acq("discovery_map", "write", {"discovery_map"}),
       Acq("discovered_nodes", "write", {}),
       Acq("discovery_map", "write", {"discovery_map", "discovered_nodes"}) >>

metrics_task ==
    << Acq("metrics_store", "write", {}),
       Acq("cpu_monitor", "write", {"cpu_monitor"}),
       Acq("memory_monitor", "write", {"memory_monitor"}),
       Acq("disk_monitor", "write", {"disk_monitor", "metrics_store"}) >>

api_sync_task ==
    << Acq("discovered_nodes", "read", {}),
       Acq("api_discovered_nodes", "write", {"api_discovered_nodes", "discovered_nodes"}) >>

hardware_route ==
    << Acq("cpu_monitor", "write", {}),
       Acq("memory_monitor", "write", {}),
       Acq("disk_monitor", "write", {"disk_monitor", "memory_monitor", "cpu_monitor"}) >>

\* a command that goes through state.alert_engine to the rule set and changes it
toggle_alert_rule_locks ==
    << Acq("alert_engine", "read", {}),
       Acq("rules", "write", {"rules", "alert_engine"}) >>

\* the browse thread puts an event into the discovery map
handle_service_event_locks == << Acq("discovery_map", "write", {"discovery_map"}) >>

\* the tick of a snapshot on which one rule triggers
tick ==
    collect_metrics_locks
    \o << Acq("rules", "write", {}),
          Acq("alerts_store", "write", {"alerts_store"}) >>
    \o send_alert_locks

Script(j) ==
    CASE j = "tick"          -> tick
      [] j = "metrics_task"  -> metrics_task
      [] j = "refresh_task"  -> refresh_task
      [] j = "api_sync_task" -> api_sync_task
      [] j = "handle_service_event" -> handle_service_event_locks
      [] j = "GET /hardware" -> hardware_route
      [] j = "toggle_alert_rule" -> toggle_alert_rule_locks

\* what each task is woken up to do
Jobs(t) ==
    CASE t = "tick"    -> {"tick"}
      [] t = "metrics" -> {"metrics_task"}
      [] t = "refresh" -> {"refresh_task"}
      [] t = "sync"    -> {"api_sync_task"}
      [] t = "browse"  -> {"handle_service_event"}
      [] t = "http"    -> {"GET /hardware"}
      [] t = "ui"      -> {"toggle_alert_rule"}

Scripts == [j \in UNION {Jobs(t) : t \in Tasks} |-> Script(j)]

\* every task waits for its timer, its next request or its next event; no guard exists
InitLocks ==
    /\ job = [t \in Tasks |-> ""]
    /\ tpc = [t \in Tasks |-> 0]
    /\ queue = [l \in Locks |-> <<>>]
    /\ held = [l \in Locks |-> {}]

InitRest ==
    /\ nowMs = 0
    /\ rulesLock = "free"
    /\ pc = "sleep"
    /\ idx = 0
    /\ message = [name |-> "", tag |-> "", shown |-> 0, threshold |-> 0]
    /\ ruleUuids = 0
    /\ records = <<>>
    /\ recUuids = 0
    /\ added = <<>>
    /\ remote_nodes = <<>>
    /\ remoteReaders = 0
    /\ npc = "idle"
    /\ nargs = NoArgs
    /\ targets = <<>>
    /\ attempts = <<>>
    /\ registryAtDispatch = <<>>
    /\ result = "none"
    /\ call = NoCall
    /\ data = EmptyMap
    /\ appended = EmptyMap
    /\ swept = {}
    /\ discovered_nodes = EmptyMap
    /\ rpc = "sleep"
    /\ rnodes = <<>>
    /\ channel = <<>>
    /\ daemon = "running"
    /\ bpc = "recv"
    /\ handled = <<>>
    /\ dispatches = 0
    /\ stamps = 0
    /\ shown = ""
    /\ InitLocks

\* FanMonitor::new(): no reading yet
InitMonitor ==
    /\ fan_rpm = None
    /\ slow_speed_threshold = DefaultSlowSpeedThreshold
    /\ fan_status = "none"

InitCommon ==
    /\ InitRest
    /\ InitMonitor
    /\ rules = default_rules
    /\ metrics = EmptyMap

\* main(): AlertsStore::new(1000), MetricsStore::new(86400)
Init ==
    /\ InitCommon
    /\ max_records = HistoryCapacity
    /\ max_data_points = 86400

AdvanceClock(d) ==
    /\ nowMs + d <= MaxNowMs
    /\ nowMs' = nowMs + d
    /\ UNCHANGED <<engineVars, storeVars, notifierVars, uiVars, metricsVars, discoveryVars,
                   browseVars, monitorVars, ghostVars, lockVars>>

\* std::net::IpAddr
V4(addr) == [family |-> "V4", addr |-> addr]
V6(addr) == [family |-> "V6", addr |-> addr]

(***************************************************************************)
(* alerts/notifier.rs                                                      *)
(***************************************************************************)
NodeInfo(id, name) ==
    [id |-> id, name |-> name, ip_address |-> V4("192.168.1.10"), api_port |-> 3030,
     last_heartbeat |-> 0, status |-> "Online", os_info |-> "Linux 6",
     version |-> "0.1.0"]

PeerA == NodeInfo("node-a", "alpha")
PeerB == NodeInfo("node-b", "beta")

\* the peer lists the registry is written with
NodeLists == { <<>>, <<PeerA>>, <<PeerB, PeerA>> }

Outcomes == {"success", "http_error", "send_error"}

\* send_alert that resolves its targets from the discovery map of the moment
\* instead of the list it has read
send_alert_begin_from_discovery_map ==
    /\ npc = "start"
    /\ rpc # "written"
    /\ remoteReaders' = remoteReaders + 1
    /\ \E seq \in [1..Cardinality(DOMAIN discovered_nodes) ->
                      {discovered_nodes[k] : k \in DOMAIN discovered_nodes}] :
          /\ \A k \in DOMAIN discovered_nodes : \E i \in DOMAIN seq : seq[i].id = k
          /\ targets' = resolve_targets(seq, nargs.target_node_ids)
    /\ attempts' = <<>>
    /\ registryAtDispatch' = remote_nodes
    /\ npc' = "deliver"
    /\ shown' = nargs.alert_id
    /\ UNCHANGED <<nowMs, engineVars, storeVars, remote_nodes, nargs, uiVars, metricsVars, discoveryVars,
                   browseVars, monitorVars, dispatches, stamps, lockVars>>

\* send_alert up to the resolution of the targets: the read guard on
\* remote_nodes is taken here and lives until the function returns
send_alert_begin ==
    /\ npc = "start"
    /\ rpc # "written"
    /\ remoteReaders' = remoteReaders + 1
    /\ targets' = resolve_targets(remote_nodes, nargs.target_node_ids)
    /\ attempts' = <<>>
    /\ registryAtDispatch' = remote_nodes
    /\ npc' = "deliver"
    /\ shown' = nargs.alert_id
    /\ UNCHANGED <<nowMs, engineVars, storeVars, remote_nodes, nargs, uiVars, metricsVars, discoveryVars,
                   browseVars, monitorVars, dispatches, stamps, lockVars>>

\* send_network_notification whose failure ends the loop over the targets
send_network_notification_aborting(outcome) ==
    /\ npc = "deliver"
    /\ targets # <<>>
    /\ attempts' = Append(attempts, [id |-> Head(targets).id, outcome |-> outcome])
    /\ targets' = IF outcome = "success" THEN Tail(targets) ELSE <<>>
    /\ UNCHANGED <<nowMs, engineVars, storeVars, remote_nodes, remoteReaders, npc, nargs,
                   registryAtDispatch, uiVars, metricsVars, discoveryVars,
                   browseVars, monitorVars, ghostVars, lockVars>>

\* send_network_notification without the client timeout: the POST to the
\* unreachable peer node-b never returns
send_network_notification_hanging(outcome) ==
    /\ npc = "deliver"
    /\ targets # <<>>
    /\ Head(targets).id # "node-b"
    /\ attempts' = Append(attempts, [id |-> Head(targets).id, outcome |-> outcome])
    /\ targets' = Tail(targets)
    /\ UNCHANGED <<nowMs, engineVars, storeVars, remote_nodes, remoteReaders, npc, nargs,
                   registryAtDispatch, uiVars, metricsVars, discoveryVars,
                   browseVars, monitorVars, ghostVars, lockVars>>

\* one pass of `for node in targets`: the POST and its logged outcome; the
\* client is built with a 5 s timeout, so the POST returns
send_network_notification(outcome) ==
    /\ npc = "deliver"
    /\ targets # <<>>
    /\ attempts' = Append(attempts, [id |-> Head(targets).id, outcome |-> outcome])
    /\ targets' = Tail(targets)
    /\ UNCHANGED <<nowMs, engineVars, storeVars, remote_nodes, remoteReaders, npc, nargs,
                   registryAtDispatch, uiVars, metricsVars, discoveryVars,
                   browseVars, monitorVars, ghostVars, lockVars>>

\* the loop is over: the guards are dropped and send_alert returns
send_alert_end ==
    /\ npc = "deliver"
    /\ targets = <<>>
    /\ remoteReaders' = remoteReaders - 1
    /\ npc' = "done"
    /\ UNCHANGED <<nowMs, engineVars, storeVars, remote_nodes, nargs, targets, attempts,
                   registryAtDispatch, uiVars, metricsVars, discoveryVars,
                   browseVars, monitorVars, ghostVars, lockVars>>

\* remote_nodes.write().await waits for the read guards to be dropped
update_remote_nodes(nodes) ==
    /\ remoteReaders = 0
    /\ rpc # "written"
    /\ remote_nodes' = nodes
    /\ UNCHANGED <<nowMs, engineVars, storeVars, remoteReaders, npc, nargs, targets,
                   attempts, registryAtDispatch, uiVars, metricsVars, discoveryVars,
                   browseVars, monitorVars, ghostVars, lockVars>>

(***************************************************************************)
(* network/discovery.rs and the discovery refresh task of main.rs          *)
(***************************************************************************)
LocalNodeId == "node-local"

ServiceType == "._skywidget._tcp.local."

TxtKeys == {"id", "name", "os_info", "version"}

\* the TXT properties of a service that announces all four keys
Txt(id, name) ==
    [k \in TxtKeys |-> CASE k = "id" -> id
                         [] k = "name" -> name
                         [] k = "os_info" -> "Linux 6"
                         [] k = "version" -> "0.1.0"]

\* a resolved service: its properties, its set of addresses and its port
ServiceInfo(properties, addresses, port) ==
    [properties |-> properties, addresses |-> addresses, port |-> port]

\* .iter().find(V4).or_else(|| .iter().next()): an IPv4 address when there
\* is one, any address otherwise
PreferredAddresses(addresses) ==
    IF \E ip \in addresses : ip.family = "V4"
    THEN {ip \in addresses : ip.family = "V4"}
    ELSE addresses

\* extract_node_info that fills in a missing version instead of giving up
extract_node_info_lenient(service_info, now) ==
    IF (TxtKeys \ {"version"}) \subseteq DOMAIN service_info.properties
       /\ service_info.addresses # {}
    THEN Some([id |-> service_info.properties["id"],
               name |-> service_info.properties["name"],
               ip_address |-> CHOOSE ip \in PreferredAddresses(service_info.addresses) : TRUE,
               api_port |-> service_info.port,
               last_heartbeat |-> now, status |-> "Online",
               os_info |-> service_info.properties["os_info"],
               version |-> "unknown"])
    ELSE None

\* None when a property or the address is missing (the `?` of each lookup)
extract_node_info(service_info, now) ==
    IF TxtKeys \subseteq DOMAIN service_info.properties /\ service_info.addresses # {}
    THEN Some([id |-> service_info.properties["id"],
               name |-> service_info.properties["name"],
               ip_address |-> CHOOSE ip \in PreferredAddresses(service_info.addresses) : TRUE,
               api_port |-> service_info.port,
               last_heartbeat |-> now, status |-> "Online",
               os_info |-> service_info.properties["os_info"],
               version |-> service_info.properties["version"]])
    ELSE None

\* entry(id).or_insert(node_info): a known id keeps its entry
Insert_keeping_existing(nodes, node_info) ==
    [k \in DOMAIN nodes \cup {node_info.id} |->
        IF k \in DOMAIN nodes THEN nodes[k] ELSE node_info]

\* nodes.insert(node_info.id.clone(), node_info)
Insert(nodes, node_info) ==
    [k \in DOMAIN nodes \cup {node_info.id} |->
        IF k = node_info.id THEN node_info ELSE nodes[k]]

\* the map without the keys outside `kept`, as nodes.retain(..) leaves it
Retained(nodes, kept) == [k \in kept |-> nodes[k]]

\* the ServiceResolved arm that registers the local node like any other
handle_resolved_without_self_check(nodes, service_info, local_node_id, now) ==
    LET extracted == extract_node_info(service_info, now)
    IN  IF ~extracted.some THEN nodes ELSE Insert(nodes, extracted.v)

\* handle_service_event, the ServiceResolved arm
handle_resolved(nodes, service_info, local_node_id, now) ==
    LET extracted == extract_node_info(service_info, now)
    IN  IF ~extracted.some THEN nodes
        ELSE IF extracted.v.id = local_node_id THEN nodes
        ELSE Insert(nodes, extracted.v)

\* the ServiceRemoved arm that takes the key of the map for the instance name
handle_removed_by_id(nodes, fullname) ==
    Retained(nodes, {k \in DOMAIN nodes : k \o ServiceType # fullname})

\* handle_service_event, the ServiceRemoved arm
handle_removed(nodes, fullname) ==
    LET service_name(node) == node.name \o ServiceType
    IN  Retained(nodes, {k \in DOMAIN nodes : service_name(nodes[k]) # fullname})

\* handle_service_event: the two arms, and `_ => {}` for every other event
handle_service_event(nodes, event, local_node_id, now) ==
    CASE event.kind = "ServiceResolved" ->
            handle_resolved(nodes, event.info, local_node_id, now)
      [] event.kind = "ServiceRemoved" ->
            handle_removed(nodes, event.fullname)
      [] OTHER -> nodes

\* nodes.values().cloned().collect(): the values in any order
get_discovered_nodes(nodes) ==
    { seq \in [1..Cardinality(DOMAIN nodes) -> {nodes[k] : k \in DOMAIN nodes}] :
         \A k \in DOMAIN nodes : \E i \in DOMAIN seq : seq[i] = nodes[k] }

\* cleanup_offline_nodes that keeps a peer whose age is exactly the timeout
cleanup_offline_nodes_inclusive(nodes, timeout_seconds, now) ==
    LET is_alive(node) == now - node.last_heartbeat <= timeout_seconds
    IN  Retained(nodes, {k \in DOMAIN nodes : is_alive(nodes[k])})

cleanup_offline_nodes(nodes, timeout_seconds, now) ==
    LET is_alive(node) == now - node.last_heartbeat < timeout_seconds
    IN  Retained(nodes, {k \in DOMAIN nodes : is_alive(nodes[k])})

LivenessTimeout == 30

\* one event handled by the browse thread, under the mutex of the map; the
\* specifications decide whether the event is logged in `call`
ServiceResolved(service_info) ==
    /\ discovered_nodes' = handle_resolved(discovered_nodes, service_info, LocalNodeId,
                                           timestamp)
    /\ UNCHANGED <<nowMs, engineVars, storeVars, notifierVars, result, metricsVars, rpc,
                   rnodes,
                   browseVars, monitorVars, ghostVars, lockVars>>

ServiceRemoved(fullname) ==
    /\ discovered_nodes' = handle_removed(discovered_nodes, fullname)
    /\ UNCHANGED <<nowMs, engineVars, storeVars, notifierVars, result, metricsVars, rpc,
                   rnodes,
                   browseVars, monitorVars, ghostVars, lockVars>>

\* interval.tick().await; let nodes = discovery_clone.get_discovered_nodes()
RefreshCopy ==
    /\ rpc = "sleep"
    /\ rnodes' \in get_discovered_nodes(discovered_nodes)
    /\ rpc' = "copied"
    /\ UNCHANGED <<nowMs, engineVars, storeVars, notifierVars, uiVars, metricsVars,
                   discovered_nodes,
                   browseVars, monitorVars, ghostVars, lockVars>>

\* discovered_nodes_clone.write().await; *nodes_guard = nodes
RefreshWrite ==
    /\ rpc = "copied"
    /\ remoteReaders = 0
    /\ remote_nodes' = rnodes
    /\ rpc' = "written"
    /\ UNCHANGED <<nowMs, engineVars, storeVars, remoteReaders, npc, nargs, targets,
                   attempts, registryAtDispatch, uiVars, metricsVars, discovered_nodes,
                   rnodes,
                   browseVars, monitorVars, ghostVars, lockVars>>

\* discovery_clone.cleanup_offline_nodes(30); the write guard is dropped
RefreshCleanup ==
    /\ rpc = "written"
    /\ discovered_nodes' = cleanup_offline_nodes(discovered_nodes, LivenessTimeout,
                                                 timestamp)
    /\ rpc' = "sleep"
    /\ rnodes' = <<>>
    /\ UNCHANGED <<nowMs, engineVars, storeVars, notifierVars, result, metricsVars,
                   browseVars, monitorVars, ghostVars, lockVars>>

(***************************************************************************)
(* alerts/engine.rs: the engine task                                       *)
(***************************************************************************)
\* ticker.tick().await, then collect_metrics
TickCollect(r) ==
    /\ pc = "sleep"
    /\ metrics' = collect_metrics(r)
    /\ pc' = "collected"
    /\ UNCHANGED <<nowMs, rules, rulesLock, idx, message, ruleUuids, storeVars,
                   notifierVars, uiVars, metricsVars, discoveryVars,
                   browseVars, monitorVars, ghostVars, lockVars>>

\* let mut rules_guard = rules.write().await
TickLock ==
    /\ pc = "collected"
    /\ rulesLock = "free"
    /\ rulesLock' = "tick"
    /\ idx' = 1
    /\ pc' = "eval"
    /\ UNCHANGED <<nowMs, rules, metrics, message, ruleUuids, storeVars, notifierVars,
                   uiVars, metricsVars, discoveryVars,
                   browseVars, monitorVars, ghostVars, lockVars>>

\* the synchronous part of `for rule in rules_guard.iter_mut()`: rules are
\* passed over until one satisfies should_trigger; Len + 1 when none does
NextFiring(rs, m, now, from) ==
    IF \E j \in from..Len(rs) : should_trigger(rs[j], m, now)
    THEN CHOOSE j \in from..Len(rs) :
            /\ should_trigger(rs[j], m, now)
            /\ \A k \in from..(j - 1) : ~should_trigger(rs[k], m, now)
    ELSE Len(rs) + 1

\* if rule.should_trigger(&metrics) { let message = rule.generate_message(..) }
TickEval ==
    /\ pc = "eval"
    /\ NextFiring(rules, metrics, timestamp, idx) <= Len(rules)
    /\ idx' = NextFiring(rules, metrics, timestamp, idx)
    /\ message' = generate_message(rules[idx'], metrics)
    /\ pc' = "record"
    /\ attempts' = <<>>
    /\ UNCHANGED <<nowMs, rules, rulesLock, metrics, ruleUuids, storeVars, remote_nodes,
                   remoteReaders, npc, nargs, targets, registryAtDispatch, uiVars,
                   metricsVars, discoveryVars,
                   browseVars, monitorVars, ghostVars, lockVars>>

\* TickRecord of an engine that was given no alert store: the dispatch is
\* made, no record is appended
TickRecord_without_store ==
    /\ pc = "record"
    /\ UNCHANGED <<records, recUuids, added>>
    /\ npc = "idle"
    /\ npc' = "start"
    /\ nargs' = [alert_id |-> rules[idx].id, alert_name |-> rules[idx].name,
                 severity |-> rules[idx].severity,
                 target_node_ids |-> rules[idx].notify_nodes]
    /\ pc' = "notify"
    /\ dispatches' = dispatches + 1
    /\ UNCHANGED <<nowMs, rules, rulesLock, idx, metrics, message, ruleUuids, max_records, remote_nodes, remoteReaders,
                   targets, attempts, registryAtDispatch, uiVars, metricsVars, discoveryVars,
                   browseVars, monitorVars, stamps, shown, lockVars>>

\* store_guard.add_record(..), then the call of notifier.send_alert(..)
TickRecord ==
    /\ pc = "record"
    /\ records' = add_record(records, max_records, rules[idx].id, rules[idx].name,
                             message, rules[idx].severity,
                             RecordUuid(recUuids + 1), timestamp_millis)
    /\ recUuids' = recUuids + 1
    /\ added' = Append(added, RecordUuid(recUuids + 1))
    /\ npc = "idle"
    /\ npc' = "start"
    /\ nargs' = [alert_id |-> rules[idx].id, alert_name |-> rules[idx].name,
                 severity |-> rules[idx].severity,
                 target_node_ids |-> rules[idx].notify_nodes]
    /\ pc' = "notify"
    /\ dispatches' = dispatches + 1
    /\ UNCHANGED <<nowMs, rules, rulesLock, idx, metrics, message, ruleUuids, max_records, remote_nodes, remoteReaders,
                   targets, attempts, registryAtDispatch, uiVars, metricsVars, discoveryVars,
                   browseVars, monitorVars, stamps, shown, lockVars>>

\* TickMark that stamps the rule only when every delivery succeeded
TickMark_skipping_failed ==
    /\ pc = "notify"
    /\ npc = "done"
    /\ rules' = IF \A k \in 1..Len(attempts) : attempts[k].outcome = "success"
                THEN [rules EXCEPT ![idx] = mark_triggered(@, timestamp)]
                ELSE rules
    /\ idx' = idx + 1
    /\ pc' = "eval"
    /\ npc' = "idle"
    /\ nargs' = NoArgs
    /\ registryAtDispatch' = <<>>
    /\ stamps' = IF \A k \in 1..Len(attempts) : attempts[k].outcome = "success"
                 THEN stamps + 1 ELSE stamps
    /\ shown' = ""
    /\ UNCHANGED <<nowMs, rulesLock, metrics, message, ruleUuids, storeVars, remote_nodes,
                   remoteReaders, targets, attempts, uiVars, metricsVars, discoveryVars,
                   browseVars, monitorVars, dispatches, lockVars>>

\* send_alert has returned: rule.mark_triggered(), on to the next rule; the
\* log of the attempts is kept until the loop goes on
TickMark ==
    /\ pc = "notify"
    /\ npc = "done"
    /\ rules' = [rules EXCEPT ![idx] = mark_triggered(@, timestamp)]
    /\ idx' = idx + 1
    /\ pc' = "eval"
    /\ npc' = "idle"
    /\ nargs' = NoArgs
    /\ registryAtDispatch' = <<>>
    /\ stamps' = stamps + 1
    /\ shown' = ""
    /\ UNCHANGED <<nowMs, rulesLock, metrics, message, ruleUuids, storeVars, remote_nodes,
                   remoteReaders, targets, attempts, uiVars, metricsVars, discoveryVars,
                   browseVars, monitorVars, dispatches, lockVars>>

\* no rule is left that fires: the for loop ends, rules_guard is dropped
TickRelease ==
    /\ pc = "eval"
    /\ NextFiring(rules, metrics, timestamp, idx) > Len(rules)
    /\ rulesLock' = "free"
    /\ pc' = "sleep"
    /\ idx' = 0
    /\ attempts' = <<>>
    /\ UNCHANGED <<nowMs, rules, metrics, message, ruleUuids, storeVars, remote_nodes,
                   remoteReaders, npc, nargs, targets, registryAtDispatch, uiVars,
                   metricsVars, discoveryVars,
                   browseVars, monitorVars, ghostVars, lockVars>>

(***************************************************************************)
(* alerts/engine.rs and main.rs: the rule commands                         *)
(***************************************************************************)
HasRule(rs, rule_id) == \E k \in 1..Len(rs) : rs[k].id = rule_id

\* add_rule that pushes the rule and a clone of it
add_rule_pushed_twice(rule) ==
    /\ rulesLock = "free"
    /\ rules' = rules \o <<rule, rule>>

add_rule(rule) ==
    /\ rulesLock = "free"
    /\ rules' = Append(rules, rule)

\* remove_rule with the retain predicate inverted
remove_rule_inverted(rule_id) ==
    LET Kept(r) == r.id = rule_id
    IN  /\ rulesLock = "free"
        /\ rules' = SelectSeq(rules, Kept)

remove_rule(rule_id) ==
    LET Kept(r) == r.id # rule_id
    IN  /\ rulesLock = "free"
        /\ rules' = SelectSeq(rules, Kept)

\* toggle_rule that does not wait for the write lock
toggle_rule_without_lock(rule_id, enabled) ==
    IF \E k \in 1..Len(rules) : rules[k].id = rule_id
    THEN LET k == CHOOSE k \in 1..Len(rules) : rules[k].id = rule_id
         IN  rules' = [rules EXCEPT ![k].enabled = enabled]
    ELSE rules' = rules

\* toggle_rule that hands back a fresh rule: the stamp of the last trigger
\* is cleared with the flag
toggle_rule_clearing_stamp(rule_id, enabled) ==
    /\ rulesLock = "free"
    /\ IF HasRule(rules, rule_id)
       THEN LET k == CHOOSE k \in 1..Len(rules) :
                        /\ rules[k].id = rule_id
                        /\ \A j \in 1..(k - 1) : rules[j].id # rule_id
            IN  rules' = [rules EXCEPT ![k].enabled = enabled,
                                       ![k].last_triggered = None]
       ELSE rules' = rules

\* rules.iter_mut().find(): the first rule with that id, if any
toggle_rule(rule_id, enabled) ==
    /\ rulesLock = "free"
    /\ IF HasRule(rules, rule_id)
       THEN LET k == CHOOSE k \in 1..Len(rules) :
                        /\ rules[k].id = rule_id
                        /\ \A j \in 1..(k - 1) : rules[j].id # rule_id
            IN  rules' = [rules EXCEPT ![k].enabled = enabled]
       ELSE rules' = rules

\* the match on condition_type with a default arm that builds a rule
ConditionOf_with_default(condition_type, threshold) ==
    CASE condition_type = "memory_usage" -> Some(Cond("MemoryUsageAbove", threshold))
      [] condition_type = "disk_usage" -> Some(Cond("DiskUsageAbove", threshold))
      [] condition_type = "cpu_temperature" -> Some(Cond("CpuTemperatureAbove", threshold))
      [] OTHER -> Some(Cond("CpuUsageAbove", threshold))

ConditionOf(condition_type, threshold) ==
    CASE condition_type = "cpu_usage" -> Some(Cond("CpuUsageAbove", threshold))
      [] condition_type = "memory_usage" -> Some(Cond("MemoryUsageAbove", threshold))
      [] condition_type = "disk_usage" -> Some(Cond("DiskUsageAbove", threshold))
      [] condition_type = "cpu_temperature" -> Some(Cond("CpuTemperatureAbove", threshold))
      [] OTHER -> None

SeverityOf(severity) ==
    IF severity \in {"Info", "Warning", "Error", "Critical"} THEN Some(severity) ELSE None

add_alert_rule(name, condition_type, threshold, severity) ==
    /\ IF ~ConditionOf(condition_type, threshold).some
       THEN /\ result' = "Invalid condition type"
            /\ UNCHANGED <<rules, ruleUuids>>
       ELSE IF ~SeverityOf(severity).some
       THEN /\ result' = "Invalid severity"
            /\ UNCHANGED <<rules, ruleUuids>>
       ELSE /\ ruleUuids < MaxAddedRules
            /\ ruleUuids' = ruleUuids + 1
            /\ add_rule(AlertRule_new(RuleUuid(ruleUuids + 1), name,
                                      ConditionOf(condition_type, threshold).v,
                                      SeverityOf(severity).v))
            /\ result' = "Ok"
    /\ UNCHANGED <<nowMs, rulesLock, pc, idx, metrics, message, storeVars, notifierVars,
                   metricsVars, discoveryVars,
                   browseVars, monitorVars, ghostVars, lockVars>>

remove_alert_rule(rule_id) ==
    /\ remove_rule(rule_id)
    /\ result' = "Ok"
    /\ UNCHANGED <<nowMs, rulesLock, pc, idx, metrics, message, ruleUuids, storeVars,
                   notifierVars, metricsVars, discoveryVars,
                   browseVars, monitorVars, ghostVars, lockVars>>

toggle_alert_rule(rule_id, enabled) ==
    /\ toggle_rule(rule_id, enabled)
    /\ result' = "Ok"
    /\ UNCHANGED <<nowMs, rulesLock, pc, idx, metrics, message, ruleUuids, storeVars,
                   notifierVars, metricsVars, discoveryVars,
                   browseVars, monitorVars, ghostVars, lockVars>>

\* a command whose call is not logged, and one whose call is
Unlogged(A) == A /\ UNCHANGED call
Logged(A, c) == A /\ call' = c

\* the ids and tags the UI commands are called with
RuleIdInputs == {"cpu_high", "no_such_rule", RuleUuid(1)}
ConditionTypeInputs == {"cpu_usage"}
SeverityInputs == {"Critical"}

(***************************************************************************)
(* The engine with its notifier, the rule commands and the clock           *)
(***************************************************************************)
Next ==
    \/ \E d \in ClockSteps : AdvanceClock(d)
    \/ \E r \in Readings : TickCollect(r)
    \/ TickLock
    \/ TickEval
    \/ TickRecord
    \/ send_alert_begin
    \/ \E o \in Outcomes : send_network_notification(o)
    \/ send_alert_end
    \/ TickMark
    \/ TickRelease
    \/ \E nodes \in NodeLists : update_remote_nodes(nodes)
    \/ \E c \in ConditionTypeInputs, s \in SeverityInputs :
          Unlogged(add_alert_rule("user rule", c, F(84), s))
    \/ \E id \in RuleIdInputs : Unlogged(remove_alert_rule(id))
    \/ \E id \in RuleIdInputs, e \in BOOLEAN : Unlogged(toggle_alert_rule(id, e))

Spec == Init /\ [][Next]_vars

\* the steps of the engine task from the lock to its release: the runtime
\* keeps running the spawned task, the rule-set and history locks are handed
\* over by their short-lived holders, and every POST returns within the
\* client timeout
EngineTask ==
    \/ TickLock
    \/ TickEval
    \/ TickRecord
    \/ send_alert_begin
    \/ \E o \in Outcomes : send_network_notification(o)
    \/ send_alert_end
    \/ TickMark
    \/ TickRelease

SpecFair == Spec /\ WF_vars(EngineTask)

(***************************************************************************)
(* The engine with logged rule commands, called with unknown ids and tags  *)
(* too, on a node that has no peers                                        *)
(***************************************************************************)
TagInputs == {"cpu_usage", "gpu_usage"}
SeverityTagInputs == {"Critical", "Fatal"}

CallOf(op, rule_id, enabled) ==
    [op |-> op, rule_id |-> rule_id, enabled |-> enabled, known |-> HasRule(rules, rule_id)]

NextRules ==
    \/ \E d \in ClockSteps : AdvanceClock(d)
    \/ TickCollect(Reading(F(85), None))
    \/ TickLock
    \/ TickEval
    \/ TickRecord
    \/ send_alert_begin
    \/ send_alert_end
    \/ TickMark
    \/ TickRelease
    \/ \E c \in TagInputs, s \in SeverityTagInputs :
          Logged(add_alert_rule("user rule", c, F(84), s),
                 CallOf("add_alert_rule", "", FALSE))
    \/ \E id \in RuleIdInputs :
          Logged(remove_alert_rule(id), CallOf("remove_rule", id, FALSE))
    \/ \E id \in RuleIdInputs, e \in BOOLEAN :
          Logged(toggle_alert_rule(id, e), CallOf("toggle_rule", id, e))

SpecRules == Init /\ [][NextRules]_vars

(***************************************************************************)
(* The notifier alone: send_alert called with any target list              *)
(***************************************************************************)
TargetIdLists == { <<>>, <<"node-a">>, <<"node-b", "node-x">>, <<"node-x">> }

CallSendAlert(target_node_ids) ==
    /\ npc = "idle"
    /\ npc' = "start"
    /\ nargs' = [alert_id |-> "cpu_high", alert_name |-> "CPU high load",
                 severity |-> "Warning", target_node_ids |-> target_node_ids]
    /\ UNCHANGED <<nowMs, engineVars, storeVars, remote_nodes, remoteReaders, targets,
                   attempts, registryAtDispatch, uiVars, metricsVars, discoveryVars,
                   browseVars, monitorVars, ghostVars, lockVars>>

ReturnSendAlert ==
    /\ npc = "done"
    /\ npc' = "idle"
    /\ nargs' = NoArgs
    /\ attempts' = <<>>
    /\ registryAtDispatch' = <<>>
    /\ shown' = ""
    /\ UNCHANGED <<nowMs, engineVars, storeVars, remote_nodes, remoteReaders, targets,
                   uiVars, metricsVars, discoveryVars,
                   browseVars, monitorVars, dispatches, stamps, lockVars>>

NextNotifier ==
    \/ \E ids \in TargetIdLists : CallSendAlert(ids)
    \/ send_alert_begin
    \/ \E o \in Outcomes : send_network_notification(o)
    \/ send_alert_end
    \/ ReturnSendAlert
    \/ \E nodes \in NodeLists : update_remote_nodes(nodes)

SpecNotifier == Init /\ [][NextNotifier]_vars

(***************************************************************************)
(* Discovery and its refresh task, with the clock                          *)
(***************************************************************************)
MaxDiscoveryNowMs == 45000

DiscoveryClockSteps == {15000}

\* what the browse thread is handed: two peers, the local node's own
\* service and a service without an id
ServiceInfos ==
    { ServiceInfo(Txt("node-a", "alpha"), {V4("192.168.1.10")}, 3030),
      ServiceInfo(Txt("node-b", "beta"), {V4("192.168.1.11")}, 3030),
      ServiceInfo(Txt(LocalNodeId, "localhost"), {V4("192.168.1.2")}, 3030),
      ServiceInfo([k \in TxtKeys \ {"id"} |-> "x"], {V4("192.168.1.12")}, 3030) }

Fullnames == { "alpha" \o ServiceType, "beta" \o ServiceType }

\* the log entry of a discovery event or of a sweep: the map it found
EventOf(op, arg) == [op |-> op, arg |-> arg, before |-> discovered_nodes, at |-> timestamp]

NextDiscovery ==
    \/ \E d \in DiscoveryClockSteps : nowMs + d <= MaxDiscoveryNowMs /\ AdvanceClock(d)
    \/ \E info \in ServiceInfos :
          Logged(ServiceResolved(info), EventOf("ServiceResolved", info.properties))
    \/ \E fullname \in Fullnames :
          Logged(ServiceRemoved(fullname), EventOf("ServiceRemoved", fullname))
    \/ RefreshCopy
    \/ RefreshWrite
    \/ Logged(RefreshCleanup, EventOf("cleanup_offline_nodes", LivenessTimeout))

SpecDiscovery == Init /\ [][NextDiscovery]_vars

(***************************************************************************)
(* The notifier reading the list that discovery and its refresh task write *)
(***************************************************************************)
NextDispatch ==
    \/ \E info \in ServiceInfos : Unlogged(ServiceResolved(info))
    \/ \E fullname \in Fullnames : Unlogged(ServiceRemoved(fullname))
    \/ RefreshCopy
    \/ RefreshWrite
    \/ Unlogged(RefreshCleanup)
    \/ \E ids \in {<<>>, <<"node-a">>} : CallSendAlert(ids)
    \/ send_alert_begin
    \/ \E o \in Outcomes : send_network_notification(o)
    \/ send_alert_end
    \/ ReturnSendAlert

SpecDispatch == Init /\ [][NextDispatch]_vars

(***************************************************************************)
(* The same with the clock: one peer is resolved, ages, is swept, and      *)
(* alerts are dispatched to every node of the Notifier's list              *)
(***************************************************************************)
SweptServices == { ServiceInfo(Txt("node-a", "alpha"), {V4("192.168.1.10")}, 3030) }

NextSweep ==
    \/ \E d \in DiscoveryClockSteps : nowMs + d <= MaxDiscoveryNowMs /\ AdvanceClock(d)
    \/ \E info \in SweptServices :
          Logged(ServiceResolved(info), EventOf("ServiceResolved", info.properties))
    \/ RefreshCopy
    \/ RefreshWrite
    \/ Logged(RefreshCleanup, EventOf("cleanup_offline_nodes", LivenessTimeout))
    \/ CallSendAlert(<<>>)
    \/ send_alert_begin
    \/ \E o \in Outcomes : send_network_notification(o)
    \/ send_alert_end
    \/ ReturnSendAlert

SpecSweep == Init /\ [][NextSweep]_vars

(***************************************************************************)
(* should_trigger alone: one rule evaluated against one snapshot           *)
(***************************************************************************)
ThresholdTags ==
    {"CpuUsageAbove", "MemoryUsageAbove", "DiskUsageAbove", "CpuTemperatureAbove",
     "ChipsetTemperatureAbove", "DiskTemperatureAbove", "MemoryTemperatureAbove"}

Operators == {">", "<", "==", "!=", ">=", ""}

EvalConditions ==
    { Cond(tag, F(80)) : tag \in ThresholdTags }
       \cup { Custom("load", F(50), operator) : operator \in Operators }

EvalRules ==
    { [AlertRule_new("rule-1", "rule", c, "Warning")
          EXCEPT !.enabled = e, !.last_triggered = l] :
         c \in EvalConditions, e \in BOOLEAN, l \in {None, Some(0)} }

ThresholdKeys ==
    {"cpu_usage", "memory_usage_percent", "disk_usage_percent", "cpu_temperature",
     "chipset_temperature", "disk_max_temperature", "memory_temperature"}

\* the value of the threshold metrics and the value of "load" in a snapshot
EvalValues ==
    { <<F(80) - 1, F(49)>>, <<F(80), F(50)>>, <<F(80) + 1, 500004>>,
      <<F(85), 500009>>, <<F(85), 500011>>, <<F(85), 500100>>, <<F(85), 499991>>,
      <<F(85), 499989>>, <<F(85), F(51)>>, <<NaN, NaN>> }

\* snapshots that hold every key, and snapshots that lack one
EvalSnapshots ==
    LET Full(vw) == [k \in ThresholdKeys \cup {"load"} |->
                       IF k = "load" THEN vw[2] ELSE vw[1]]
        Without(m, key) == [k \in DOMAIN m \ {key} |-> m[k]]
    IN  { Full(vw) : vw \in EvalValues }
           \cup { Without(Full(vw), key) : vw \in EvalValues,
                                            key \in ThresholdKeys \cup {"load"} }

InitEval ==
    /\ InitRest
    /\ InitMonitor
    /\ max_records = HistoryCapacity
    /\ max_data_points = 86400
    /\ rules \in { <<rule>> : rule \in EvalRules }
    /\ metrics \in EvalSnapshots

\* rule.should_trigger(&metrics), its answer and the time of the call logged
Evaluate ==
    /\ result' = IF should_trigger(rules[1], metrics, timestamp)
                 THEN "triggered" ELSE "not triggered"
    /\ call' = [op |-> "should_trigger", at |-> timestamp]
    /\ UNCHANGED <<nowMs, engineVars, storeVars, notifierVars, metricsVars, discoveryVars,
                   browseVars, monitorVars, ghostVars, lockVars>>

NextEval ==
    \/ \E d \in ClockSteps : AdvanceClock(d)
    \/ Evaluate

SpecEval == InitEval /\ [][NextEval]_vars

(***************************************************************************)
(* should_trigger of each non-custom condition on snapshots of one or two  *)
(* metrics                                                                 *)
(***************************************************************************)
NonCustomTags ==
    ThresholdTags \cup {"FanStopped", "FanSlowSpeed", "DiskHealthWarning",
                        "VoltageAbnormal", "MemoryErrors"}

\* the keys the arms of should_trigger look up
ConditionKeys ==
    ThresholdKeys \cup {"fans_stopped_count", "fans_slow_speed_count",
                        "disk_warning_count", "disk_critical_count",
                        "voltage_abnormal_count", "memory_uncorrectable_errors"}

\* snapshots with no metric, with one metric and with two
BoundSnapshots ==
    {EmptyMap}
    \cup { [k \in {key} |-> v] : key \in ConditionKeys, v \in {0, F(85), NaN} }
    \cup { [k \in {key1, key2} |-> IF k = key1 THEN v1 ELSE v2] :
              key1 \in ConditionKeys, key2 \in ConditionKeys, v1 \in {0, F(85)},
              v2 \in {0, F(85)} }

InitBound ==
    /\ InitRest
    /\ InitMonitor
    /\ max_records = HistoryCapacity
    /\ max_data_points = 86400
    /\ rules \in { <<AlertRule_new("rule-1", "rule", Cond(tag, F(80)), "Warning")>> :
                     tag \in NonCustomTags }
    /\ metrics \in BoundSnapshots

NextBound == Evaluate

SpecBound == InitBound /\ [][NextBound]_vars

(***************************************************************************)
(* network/discovery.rs: the browse thread on the channel of the daemon    *)
(***************************************************************************)
MaxEvents == 3

MaxBrowseNowMs == 15000

NoServiceInfo == ServiceInfo([k \in {} |-> ""], {}, 0)

\* mdns_sd::ServiceEvent
Resolved(service_info) ==
    [kind |-> "ServiceResolved", info |-> service_info, fullname |-> ""]
Removed(fullname) ==
    [kind |-> "ServiceRemoved", info |-> NoServiceInfo, fullname |-> fullname]
Other(kind) ==
    [kind |-> kind, info |-> NoServiceInfo, fullname |-> ""]

\* the services of three peers, two of them on hosts of the same name, a
\* peer resolved again at a new address, the node's own service, and two
\* services that cannot be read
PeerServices ==
    { ServiceInfo(Txt("node-a", "alpha"), {V4("192.168.1.10")}, 3030),
      ServiceInfo(Txt("node-a", "alpha"), {V6("fe80::a"), V4("192.168.1.20")}, 3031),
      ServiceInfo(Txt("node-b", "beta"), {V6("fe80::b")}, 3030),
      ServiceInfo(Txt("node-c", "alpha"), {V4("192.168.1.12")}, 3030) }

OwnService == ServiceInfo(Txt(LocalNodeId, "localhost"), {V4("192.168.1.2")}, 3030)

\* the service of node-b without one of its properties, and without address
ServiceWithout(missing) ==
    ServiceInfo([k \in TxtKeys \ {missing} |-> Txt("node-b", "beta")[k]],
                {V4("192.168.1.11")}, 3030)
AddresslessService == ServiceInfo(Txt("node-b", "beta"), {}, 3030)

MalformedServices == { ServiceWithout(missing) : missing \in TxtKeys } \cup {AddresslessService}

\* the variants of ServiceEvent that handle_service_event has no arm for
OtherKinds == {"SearchStarted", "ServiceFound", "SearchStopped"}

\* the events the daemon puts on the channel
Events ==
    { Resolved(info) : info \in PeerServices \cup {OwnService} }
    \cup { Resolved(ServiceWithout("version")), Resolved(AddresslessService) }
    \cup { Removed(fullname) : fullname \in Fullnames }
    \cup { Other("SearchStarted") }

\* the daemon thread sends an event to the receiver browse() returned
DaemonSend(event) ==
    /\ daemon # "shutdown"
    /\ Len(handled) + Len(channel) < MaxEvents
    /\ channel' = Append(channel, event)
    /\ UNCHANGED <<nowMs, engineVars, storeVars, notifierVars, uiVars, metricsVars,
                   discoveryVars, daemon, bpc, handled, monitorVars, ghostVars, lockVars>>

\* what daemon.shutdown() returns
ShutdownOutcomes == {"ok", "error"}

\* Drop for DiscoveryService: daemon.shutdown() stops the daemon, whose
\* sender is dropped with it; an Err is logged and the daemon lives on
DaemonShutdown(outcome) ==
    /\ daemon = "running"
    /\ daemon' = IF outcome = "ok" THEN "shutdown" ELSE "shutdown_failed"
    /\ UNCHANGED <<nowMs, engineVars, storeVars, notifierVars, uiVars, metricsVars,
                   discoveryVars, channel, bpc, handled, monitorVars, ghostVars, lockVars>>

\* Ok(event) => handle_service_event(event, ..): the oldest event of the channel
BrowseRecv ==
    /\ bpc = "recv"
    /\ channel # <<>>
    /\ discovered_nodes' = handle_service_event(discovered_nodes, Head(channel),
                                                 LocalNodeId, timestamp)
    /\ channel' = Tail(channel)
    /\ handled' = Append(handled, Head(channel))
    /\ UNCHANGED <<nowMs, engineVars, storeVars, notifierVars, uiVars, metricsVars,
                   rpc, rnodes, daemon, bpc, monitorVars, ghostVars, lockVars>>

\* a timeout that ends the loop like any other error
BrowseTimeout_breaking ==
    /\ bpc = "recv"
    /\ channel = <<>>
    /\ daemon # "shutdown"
    /\ bpc' = "stopped"
    /\ UNCHANGED <<nowMs, engineVars, storeVars, notifierVars, uiVars, metricsVars,
                   discoveryVars, channel, daemon, handled, monitorVars, ghostVars, lockVars>>

\* recv_timeout(1 s) found the channel empty and its sender alive
BrowseTimeout ==
    /\ bpc = "recv"
    /\ channel = <<>>
    /\ daemon # "shutdown"
    /\ bpc' = "timeout"
    /\ UNCHANGED <<nowMs, engineVars, storeVars, notifierVars, uiVars, metricsVars,
                   discoveryVars, channel, daemon, handled, monitorVars, ghostVars, lockVars>>

\* Err(Timeout) => continue
BrowseContinue ==
    /\ bpc = "timeout"
    /\ bpc' = "recv"
    /\ UNCHANGED <<nowMs, engineVars, storeVars, notifierVars, uiVars, metricsVars,
                   discoveryVars, channel, daemon, handled, monitorVars, ghostVars, lockVars>>

\* a disconnected channel handled like a timeout: the loop polls again
BrowseDisconnected_continuing ==
    /\ bpc = "recv"
    /\ channel = <<>>
    /\ daemon = "shutdown"
    /\ bpc' = "timeout"
    /\ UNCHANGED <<nowMs, engineVars, storeVars, notifierVars, uiVars, metricsVars,
                   discoveryVars, channel, daemon, handled, monitorVars, ghostVars, lockVars>>

\* Err(e) => break: the channel is empty and its sender is gone
BrowseDisconnected ==
    /\ bpc = "recv"
    /\ channel = <<>>
    /\ daemon = "shutdown"
    /\ bpc' = "stopped"
    /\ UNCHANGED <<nowMs, engineVars, storeVars, notifierVars, uiVars, metricsVars,
                   discoveryVars, channel, daemon, handled, monitorVars, ghostVars, lockVars>>

\* the steps of the thread browse_services spawns
BrowseThread ==
    \/ BrowseRecv
    \/ BrowseTimeout
    \/ BrowseContinue
    \/ BrowseDisconnected

NextBrowse ==
    \/ \E d \in DiscoveryClockSteps : nowMs + d <= MaxBrowseNowMs /\ AdvanceClock(d)
    \/ \E event \in Events : DaemonSend(event)
    \/ \E outcome \in ShutdownOutcomes : DaemonShutdown(outcome)
    \/ BrowseRecv
    \/ BrowseTimeout
    \/ BrowseContinue
    \/ BrowseDisconnected

SpecBrowse == Init /\ [][NextBrowse]_vars

\* the operating system keeps running the browse thread, and the mutex of
\* the map is held by the other threads for one map operation at a time
SpecBrowseFair == SpecBrowse /\ WF_vars(BrowseThread)

(***************************************************************************)
(* determine_fan_status on drawn readings and thresholds                   *)
(***************************************************************************)
\* RPM values around zero and around each threshold
FanSpeeds ==
    { F(0 - 100), 0 - 1, 0, 1, F(1), F(249), F(250) - 1, F(250), F(250) + 1, F(300),
      F(500) - 1, F(500), F(500) + 1, F(999), F(1000) - 1, F(1000), F(1000) + 1, F(1500) }

\* no reading, a reading that is not a number, and the numeric readings
FanReadings == {None, Some(NaN)} \cup {Some(speed) : speed \in FanSpeeds}

\* the default and two other values set_slow_speed_threshold may store
SlowSpeedThresholds == {F(250), DefaultSlowSpeedThreshold, F(1000)}

InitFan ==
    /\ InitRest
    /\ rules = default_rules
    /\ metrics = EmptyMap
    /\ max_records = HistoryCapacity
    /\ max_data_points = 86400
    /\ fan_rpm \in FanReadings
    /\ slow_speed_threshold \in SlowSpeedThresholds
    /\ fan_status = "none"

\* let status = self.determine_fan_status(rpm)
DetermineFanStatus ==
    /\ fan_status' = determine_fan_status(fan_rpm, slow_speed_threshold)
    /\ UNCHANGED <<nowMs, engineVars, storeVars, notifierVars, uiVars, metricsVars,
                   discoveryVars, browseVars, fan_rpm, slow_speed_threshold, ghostVars, lockVars>>

NextFan == DetermineFanStatus

SpecFan == InitFan /\ [][NextFan]_vars

(***************************************************************************)
(* The alert history alone: a store built with any capacity                *)
(***************************************************************************)
InitStore ==
    /\ InitCommon
    /\ max_records \in 0..MaxCapacity
    /\ max_data_points = 86400

StoreAddRecord(rule) ==
    /\ recUuids < MaxAppends
    /\ records' = add_record(records, max_records, rule.id, rule.name,
                             generate_message(rule, EmptyMap), rule.severity,
                             RecordUuid(recUuids + 1), timestamp_millis)
    /\ recUuids' = recUuids + 1
    /\ added' = Append(added, RecordUuid(recUuids + 1))
    /\ UNCHANGED <<nowMs, engineVars, max_records, notifierVars, uiVars, metricsVars, discoveryVars,
                   browseVars, monitorVars, ghostVars, lockVars>>

acknowledge_alert(record_id) ==
    /\ records' = acknowledge(records, record_id)
    /\ result' = IF HoldsRecord(records, record_id) THEN "Ok" ELSE "Alert record not found"
    /\ UNCHANGED <<nowMs, engineVars, max_records, recUuids, added, notifierVars,
                   metricsVars, discoveryVars,
                   browseVars, monitorVars, ghostVars, lockVars>>

clear_alert_history ==
    /\ records' = clear(records)
    /\ added' = <<>>
    /\ result' = "Ok"
    /\ UNCHANGED <<nowMs, engineVars, max_records, recUuids, notifierVars, metricsVars, discoveryVars,
                   browseVars, monitorVars, ghostVars, lockVars>>

RecordIdInputs == {RecordUuid(1), RecordUuid(3), "no-such-record"}

NextStore ==
    \/ \E d \in ClockSteps : AdvanceClock(d)
    \/ \E k \in 1..2 : StoreAddRecord(default_rules[k])
    \/ \E id \in RecordIdInputs :
          Logged(acknowledge_alert(id),
                 [op |-> "acknowledge_alert", record_id |-> id,
                  known |-> HoldsRecord(records, id),
                  already |-> \E k \in 1..Len(records) :
                                 records[k].id = id /\ records[k].acknowledged])
    \/ Logged(clear_alert_history, [op |-> "clear_alert_history"])

SpecStore == InitStore /\ [][NextStore]_vars

(***************************************************************************)
(* The metric store alone: a store built with any capacity                 *)
(***************************************************************************)
InitMetrics ==
    /\ InitCommon
    /\ max_records = HistoryCapacity
    /\ max_data_points \in 0..MaxCapacity

MetricNames == {"cpu_usage", "memory_usage_percent"}

RECURSIVE TotalPoints(_, _)
TotalPoints(d, names) ==
    IF names = {} THEN 0
    ELSE LET m == CHOOSE m \in names : TRUE
         IN  Len(Points(d, m)) + TotalPoints(d, names \ {m})

MetricsAdd(metric_name, value) ==
    /\ TotalPoints(appended, MetricNames) < MaxAppends
    /\ data' = add_metric(data, max_data_points, metric_name, value, timestamp_millis)
    /\ appended' = [m \in DOMAIN appended \cup {metric_name} |->
                      IF m = metric_name
                      THEN Append(Points(appended, m),
                                  [timestamp |-> timestamp_millis, value |-> value])
                      ELSE appended[m]]
    /\ UNCHANGED <<nowMs, engineVars, storeVars, notifierVars, uiVars, max_data_points,
                   swept, discoveryVars,
                   browseVars, monitorVars, ghostVars, lockVars>>

MetricsCleanup(max_age_seconds) ==
    /\ data' = cleanup_old_data(data, max_age_seconds, timestamp_millis)
    /\ swept' = swept \cup {m \in DOMAIN data : Len(data'[m]) < Len(data[m])}
    /\ UNCHANGED <<nowMs, engineVars, storeVars, notifierVars, uiVars, max_data_points,
                   appended, discoveryVars,
                   browseVars, monitorVars, ghostVars, lockVars>>

\* the ages cleanup_old_data is called with
SweepAges == {0, 150, 300}

NextMetrics ==
    \/ \E d \in ClockSteps : AdvanceClock(d)
    \/ \E m \in MetricNames, v \in {F(10), F(20)} : MetricsAdd(m, v)
    \/ \E age \in SweepAges : MetricsCleanup(age)

SpecMetrics == InitMetrics /\ [][NextMetrics]_vars

(***************************************************************************)
(* Properties of the rule engine                                           *)
(***************************************************************************)
InCooldown(rule, now) ==
    rule.last_triggered.some /\ now - rule.last_triggered.v < rule.cooldown_seconds

\* the rules a step of the engine task has evaluated without triggering them
PassedOver == idx..(IF pc' = "record" THEN idx' - 1 ELSE Len(rules))

EvaluationStep == pc = "eval" /\ pc' # "eval"
RecordStep == recUuids' # recUuids
DispatchStep == npc = "idle" /\ npc' = "start"

\* rule k of this state is stamped by the step
Stamped(k) ==
    \E j \in 1..Len(rules') :
        /\ rules'[j].id = rules[k].id
        /\ rules'[j].last_triggered # rules[k].last_triggered

\* C1: a rule stamped last_triggered = T is not triggered (no record, no
\* dispatch, no new stamp) by an evaluation at now with now - T < cooldown_seconds,
\* and an evaluation that finds it enabled, its condition true and the cooldown
\* elapsed triggers it.
C1_Cooldown ==
    [][ /\ EvaluationStep =>
              /\ \A k \in PassedOver :
                    ~(/\ rules[k].enabled
                      /\ condition_holds(rules[k].condition, metrics)
                      /\ ~InCooldown(rules[k], timestamp))
              /\ pc' = "record" => ~InCooldown(rules[idx'], timestamp)
        /\ RecordStep =>
              \A k \in 1..Len(rules) :
                 rules[k].id = Last(records').rule_id => ~InCooldown(rules[k], timestamp)
        /\ DispatchStep =>
              \A k \in 1..Len(rules) :
                 rules[k].id = nargs'.alert_id => ~InCooldown(rules[k], timestamp)
        /\ \A k \in 1..Len(rules) : Stamped(k) => ~InCooldown(rules[k], timestamp)
      ]_vars

\* cpu_high, stamped at 0, is triggered again at 300 s, after a tick at 150 s
\* that triggered only the rule added by the user
C1_Witness ==
    /\ pc = "record"
    /\ idx = 1
    /\ rules[1].id = "cpu_high"
    /\ rules[1].last_triggered = Some(0)
    /\ timestamp = 300
    /\ \E k \in 1..Len(records) :
          records[k].rule_id = RuleUuid(1) /\ records[k].timestamp = 150000

\* C2: a tick makes a history record, a dispatch or a stamp for a rule only
\* if the rule is enabled when it is evaluated.
C2_DisabledNeverTriggers ==
    [][ /\ (EvaluationStep /\ pc' = "record") => rules[idx'].enabled
        /\ RecordStep =>
              \A k \in 1..Len(rules) :
                 rules[k].id = Last(records').rule_id => rules[k].enabled
        /\ DispatchStep =>
              \A k \in 1..Len(rules) : rules[k].id = nargs'.alert_id => rules[k].enabled
        /\ \A k \in 1..Len(rules) : Stamped(k) => rules[k].enabled
      ]_vars

\* a tick has passed over the disabled cpu_high, whose condition holds and
\* which is in no cooldown, and triggers a later rule
C2_Witness ==
    /\ pc = "record"
    /\ idx > 1
    /\ rules[1].id = "cpu_high"
    /\ ~rules[1].enabled
    /\ condition_holds(rules[1].condition, metrics)
    /\ ~InCooldown(rules[1], timestamp)

\* C3: while the engine task holds the rule-set lock, from the step that takes
\* it to the step that drops it, the rule set changes only by the stamp of the
\* rule being triggered: no add, remove or toggle takes effect in between.
C3_TickAtomic ==
    [][ (rulesLock = "tick" \/ rulesLock' = "tick") =>
           /\ Len(rules') = Len(rules)
           /\ \A k \in 1..Len(rules) :
                 /\ [rules'[k] EXCEPT !.last_triggered = rules[k].last_triggered] = rules[k]
                 /\ rules'[k].last_triggered # rules[k].last_triggered =>
                       (k = idx /\ pc = "notify" /\ pc' = "eval")
      ]_vars

\* a tick is in the middle of a dispatch, after commands that added a rule and
\* disabled one, and the stamp of the triggered rule is still to be written
C3_Witness ==
    /\ rulesLock = "tick"
    /\ npc = "deliver"
    /\ attempts # <<>>
    /\ HasRule(rules, RuleUuid(1))
    /\ \E k \in 1..Len(rules) : ~rules[k].enabled
    /\ ~rules[idx].last_triggered.some

\* C4: no two rules of the rule set have the same id.
C4_UniqueRuleIds ==
    \A i, j \in 1..Len(rules) : i # j => rules[i].id # rules[j].id

\* the rule set after an add, a remove, a toggle and a tick
C4_Witness ==
    /\ HasRule(rules, RuleUuid(1))
    /\ ~HasRule(rules, "cpu_high")
    /\ \E k \in 1..Len(rules) : ~rules[k].enabled
    /\ \E k \in 1..Len(rules) : rules[k].last_triggered.some

\* a step of the engine task or of its send_alert
TickStep == pc' # pc \/ idx' # idx \/ npc' # npc \/ attempts' # attempts

\* C5: a tick triggers exactly the rules that satisfy should_trigger, stamps
\* each of them with the time of the stamp, and changes nothing else of the
\* rule set.
C5_TickFrame ==
    [][ /\ EvaluationStep =>
              /\ \A k \in PassedOver : ~should_trigger(rules[k], metrics, timestamp)
              /\ pc' = "record" => should_trigger(rules[idx'], metrics, timestamp)
        /\ (pc \in {"record", "notify"} /\ (idx' # idx \/ pc' = "eval")) =>
              /\ idx' = idx + 1
              /\ rules' = [rules EXCEPT ![idx].last_triggered = Some(timestamp)]
        /\ (TickStep /\ ~(pc = "notify" /\ pc' = "eval")) => rules' = rules
      ]_vars

\* the second rule triggered by one tick has been stamped, at 150 s, and the
\* first one keeps the stamp it got
C5_Witness ==
    /\ rulesLock = "tick"
    /\ pc = "eval"
    /\ timestamp = 150
    /\ rules[1].last_triggered.some
    /\ \E k \in 2..Len(rules) : k < idx /\ rules[k].last_triggered = Some(150)

\* C6: remove_rule and toggle_rule called with an id no rule has leave the
\* rule set as it is and return without error.
C6_UnknownIdNoOp ==
    [][ \A id \in RuleIdInputs :
           ~HasRule(rules, id) =>
              /\ remove_alert_rule(id) => (rules' = rules /\ result' = "Ok")
              /\ \A e \in BOOLEAN :
                    toggle_alert_rule(id, e) => (rules' = rules /\ result' = "Ok")
      ]_vars

\* the last command was a remove or a toggle of an unknown id, on a rule set
\* that holds an added rule, a disabled rule and a stamped rule
C6_Witness ==
    /\ call.op \in {"remove_rule", "toggle_rule"}
    /\ ~call.known
    /\ result = "Ok"
    /\ HasRule(rules, RuleUuid(1))
    /\ \E k \in 1..Len(rules) : ~rules[k].enabled
    /\ \E k \in 1..Len(rules) : rules[k].last_triggered.some

(***************************************************************************)
(* Properties of the alert history                                         *)
(***************************************************************************)
\* C7: a store built with max_records = N, N = 0 included, never holds more
\* than N records.
C7_HistoryCapacity == Len(records) <= max_records

\* a store of capacity 0 after two add_record calls
C7_Witness ==
    /\ max_records = 0
    /\ Len(added) = 2

RecordIds(recs) == [k \in 1..Len(recs) |-> recs[k].id]

\* C8: get_all_records returns the last min(k, N) of the k records added
\* since the store was last empty by clear, oldest first.
C8_HistoryFifo == RecordIds(get_all_records(records)) = LastN(added, max_records)

\* a store of capacity 2 that has evicted the two oldest of four records
C8_Witness ==
    /\ max_records = 2
    /\ Len(added) = 4
    /\ RecordIds(records) = <<added[3], added[4]>>

(***************************************************************************)
(* Properties of the metric store                                          *)
(***************************************************************************)
\* C9: every metric holds at most max_data_points points; a metric from which
\* no sweep has removed a point holds the last min(k, N) of the k points
\* appended to it, in append order; and an append to one metric leaves the
\* sequences of the other metrics as they are.
C9_MetricSeriesBound ==
    /\ [](\A m \in DOMAIN data :
             /\ Len(data[m]) <= max_data_points
             /\ m \notin swept => data[m] = LastN(appended[m], max_data_points))
    /\ [][ appended' # appended =>
              \A m \in DOMAIN data :
                 Points(appended', m) = Points(appended, m) => data'[m] = data[m]
         ]_vars

\* two metrics of a store of capacity 2: one trimmed to the last two of its
\* three points, the other untouched by those appends
C9_Witness ==
    /\ max_data_points = 2
    /\ DOMAIN data = MetricNames
    /\ swept = {}
    /\ Len(appended["cpu_usage"]) = 3
    /\ Len(data["cpu_usage"]) = 2
    /\ Len(data["memory_usage_percent"]) = 1

(***************************************************************************)
(* Properties of the notifier                                              *)
(***************************************************************************)
Ids(nodes) == [k \in 1..Len(nodes) |-> nodes[k].id]
IdSet(ids) == { ids[k] : k \in 1..Len(ids) }
Occurrences(ids, id) == Cardinality({ k \in 1..Len(ids) : ids[k] = id })

\* C10: a finished send_alert has attempted every peer of the registry it read
\* when the list is empty; with a non-empty list, once each peer of that
\* registry whose id is listed and no other, so none when no listed id is known.
C10_TargetResolution ==
    npc = "done" =>
        LET listed == nargs.target_node_ids
            known == IdSet(Ids(registryAtDispatch))
            tried == Ids(attempts)
        IN  /\ listed = <<>> => tried = Ids(registryAtDispatch)
            /\ listed # <<>> =>
                  \A id \in known \cup IdSet(listed) \cup IdSet(tried) :
                     Occurrences(tried, id) =
                        IF id \in known /\ id \in IdSet(listed) THEN 1 ELSE 0
            /\ IdSet(listed) \cap known = {} /\ listed # <<>> => tried = <<>>

\* a dispatch listing a known and an unknown id, from a registry of two peers,
\* has attempted the known one only
C10_Witness ==
    /\ npc = "done"
    /\ nargs.target_node_ids = <<"node-b", "node-x">>
    /\ Len(registryAtDispatch) = 2
    /\ Ids(attempts) = <<"node-b">>

\* C11: within one dispatch every peer of the resolved target set gets exactly
\* one POST attempt, whatever the outcomes of the other attempts: the attempts
\* made so far and the targets still to come are always the resolved set, in
\* order, and a finished dispatch has attempted each resolved peer once.
C11_IndependentDelivery ==
    npc \in {"deliver", "done"} =>
        LET resolved == Ids(resolve_targets(registryAtDispatch, nargs.target_node_ids))
        IN  /\ Ids(attempts) \o Ids(targets) = resolved
            /\ npc = "done" =>
                  /\ targets = <<>>
                  /\ \A id \in IdSet(resolved) : Occurrences(Ids(attempts), id) = 1
                  /\ IdSet(Ids(attempts)) = IdSet(resolved)

\* a finished broadcast to two peers whose first attempt failed to connect and
\* whose second got a non-2xx answer
C11_Witness ==
    /\ npc = "done"
    /\ nargs.target_node_ids = <<>>
    /\ Len(attempts) = 2
    /\ attempts[1] = [id |-> "node-b", outcome |-> "send_error"]
    /\ attempts[2] = [id |-> "node-a", outcome |-> "http_error"]

\* C12: the outcomes of the deliveries of a trigger do not touch its
\* bookkeeping: while the dispatch runs, the history, the rule set and the
\* position of the tick stay as they are and the record of the trigger is the
\* newest of the history; when the dispatch has returned, whatever its
\* outcomes, the rule is stamped with the current time, the record is kept and
\* the tick goes on with the next rule.
C12_DeliveryOutcomeNoRollback ==
    [][ /\ pc = "notify" =>
              /\ records # <<>>
              /\ Last(records).rule_id = rules[idx].id
              /\ Last(records).id = Last(added)
        /\ (pc = "notify" /\ npc \in {"start", "deliver"}) =>
              /\ records' = records
              /\ rules' = rules
              /\ pc' = pc
              /\ idx' = idx
        /\ (pc = "notify" /\ npc = "done" /\ npc' # npc) =>
              /\ records' = records
              /\ pc' = "eval"
              /\ idx' = idx + 1
              /\ rules'[idx].last_triggered = Some(timestamp)
      ]_vars

\* both deliveries of the trigger of cpu_high have failed; the rule is stamped,
\* its record is in the history and the tick is at the next rule
C12_Witness ==
    /\ rulesLock = "tick"
    /\ pc = "eval"
    /\ idx = 2
    /\ Len(attempts) = 2
    /\ \A k \in 1..Len(attempts) : attempts[k].outcome # "success"
    /\ rules[1].id = "cpu_high"
    /\ rules[1].last_triggered = Some(timestamp)
    /\ records # <<>>
    /\ Last(records).rule_id = "cpu_high"

(***************************************************************************)
(* Properties of the peer registry                                         *)
(***************************************************************************)
\* C13: a dispatch attempts the targets resolved from the peer list as it was
\* when the dispatch read it: the targets are resolved from the list of that
\* moment, a later change of the discovery map or of the list changes neither
\* the targets nor the attempts, and the finished dispatch has attempted the
\* peers resolved from the list it read and no other.
C13_RegistrySnapshot ==
    [][ /\ (npc = "start" /\ npc' = "deliver") =>
              targets' = resolve_targets(remote_nodes, nargs.target_node_ids)
        /\ (npc \in {"deliver", "done"}
             /\ (discovered_nodes' # discovered_nodes \/ remote_nodes' # remote_nodes)) =>
              /\ targets' = targets
              /\ attempts' = attempts
        /\ npc' = "done" =>
              Ids(attempts') = Ids(resolve_targets(registryAtDispatch', nargs'.target_node_ids))
      ]_vars

\* a broadcast read the list when it held node-a only; since then node-a has
\* left the discovery map and node-b has entered it, and the refresh task
\* holds the new list: node-a was attempted, node-b was not
C13_Witness ==
    /\ npc = "done"
    /\ nargs.target_node_ids = <<>>
    /\ Ids(registryAtDispatch) = <<"node-a">>
    /\ Ids(attempts) = <<"node-a">>
    /\ DOMAIN discovered_nodes = {"node-b"}
    /\ rpc = "copied"
    /\ Ids(rnodes) = <<"node-b">>

\* C14: while the deliveries of a dispatch are in flight no guard is held on
\* the peer list, so a write of the list can complete.
C14_RegistryUnlockedDuringDelivery ==
    (npc = "deliver" /\ targets # <<>>) => remoteReaders = 0

\* C15: neither the discovery map, nor the copy the refresh task holds, nor
\* the peer list the notifier reads has an entry with the local node's id.
C15_NoLocalNodeInRegistry ==
    /\ LocalNodeId \notin DOMAIN discovered_nodes
    /\ \A k \in DOMAIN discovered_nodes : discovered_nodes[k].id # LocalNodeId
    /\ \A k \in 1..Len(rnodes) : rnodes[k].id # LocalNodeId
    /\ \A k \in 1..Len(remote_nodes) : remote_nodes[k].id # LocalNodeId

\* the browse thread has just handled the resolution of the local node's own
\* service, with two peers in the map and in the notifier's list
C15_Witness ==
    /\ call.op = "ServiceResolved"
    /\ "id" \in DOMAIN call.arg
    /\ call.arg["id"] = LocalNodeId
    /\ DOMAIN discovered_nodes = {"node-a", "node-b"}
    /\ Len(remote_nodes) = 2

BoundMetric(tag) ==
    CASE tag = "CpuUsageAbove" -> "cpu_usage"
      [] tag = "MemoryUsageAbove" -> "memory_usage_percent"
      [] tag = "DiskUsageAbove" -> "disk_usage_percent"
      [] tag = "CpuTemperatureAbove" -> "cpu_temperature"
      [] tag = "ChipsetTemperatureAbove" -> "chipset_temperature"
      [] tag = "DiskTemperatureAbove" -> "disk_max_temperature"
      [] tag = "MemoryTemperatureAbove" -> "memory_temperature"

\* the evaluated rule was enabled and outside its cooldown at the evaluation
Evaluated(tags) ==
    /\ call.op = "should_trigger"
    /\ rules[1].condition.tag \in tags
    /\ rules[1].enabled
    /\ ~InCooldown(rules[1], call.at)

\* C17: an enabled rule outside its cooldown with a threshold condition
\* XAbove(t) triggers iff the snapshot holds its bound metric with a value > t;
\* a value equal to t and a snapshot without the metric give "not triggered",
\* which is an answer, not an error.
C17_StrictThreshold ==
    Evaluated(ThresholdTags) =>
        LET c == rules[1].condition
            key == BoundMetric(c.tag)
        IN  /\ result \in {"triggered", "not triggered"}
            /\ (result = "triggered") <=>
                  (key \in DOMAIN metrics /\ FGt(metrics[key], c.threshold))
            /\ (key \in DOMAIN metrics /\ metrics[key] = c.threshold) =>
                  result = "not triggered"
            /\ key \notin DOMAIN metrics => result = "not triggered"

\* CpuUsageAbove(80.0), stamped at 0 and evaluated at 300 s against a snapshot
\* with cpu_usage = 80.0, has not triggered
C17_Witness ==
    /\ Evaluated({"CpuUsageAbove"})
    /\ rules[1].last_triggered = Some(0)
    /\ call.at = 300
    /\ "cpu_usage" \in DOMAIN metrics
    /\ metrics["cpu_usage"] = rules[1].condition.threshold
    /\ result = "not triggered"

\* what the operator of a Custom condition asks of a present value
OperatorHolds(operator, value, threshold) ==
    CASE operator = ">" -> FGt(value, threshold)
      [] operator = "<" -> FLt(value, threshold)
      [] operator = "==" -> FLt(Abs(FSub(value, threshold)), Epsilon)
      [] operator = "!=" -> FGe(Abs(FSub(value, threshold)), Epsilon)
      [] OTHER -> FALSE

\* the evaluated rule with another operator, evaluated on the same snapshot
TriggersWith(operator) ==
    should_trigger([rules[1] EXCEPT !.condition.operator = operator], metrics, call.at)

\* the answer of an evaluated Custom rule is what its operator asks
CustomAnswer ==
    LET c == rules[1].condition
    IN  (result = "triggered") <=>
           (c.metric_name \in DOMAIN metrics
            /\ OperatorHolds(c.operator, metrics[c.metric_name], c.threshold))

\* C18 as stated: a Custom rule triggers as its operator asks, and for any
\* present value exactly one of "==" and "!=" triggers.
C18_CustomOperators ==
    Evaluated({"Custom"}) =>
        /\ CustomAnswer
        /\ rules[1].condition.metric_name \in DOMAIN metrics =>
              (TriggersWith("==") # TriggersWith("!="))

\* C18, amended: a Custom rule triggers as its operator asks (">" iff
\* value > threshold, "<" iff value < threshold, "==" iff
\* |value - threshold| < 0.001, "!=" iff |value - threshold| >= 0.001, any
\* other operator and an absent metric never); exactly one of "==" and "!="
\* triggers for a present value whose difference from the threshold is a
\* number, and neither triggers when that difference is NaN.
C18_CustomOperatorsNumeric ==
    Evaluated({"Custom"}) =>
        LET c == rules[1].condition
        IN  /\ CustomAnswer
            /\ c.metric_name \in DOMAIN metrics =>
                  IF IsNaN(FSub(metrics[c.metric_name], c.threshold))
                  THEN ~TriggersWith("==") /\ ~TriggersWith("!=")
                  ELSE TriggersWith("==") # TriggersWith("!=")

\* Custom "==" with threshold 50.0 has triggered for the value 50.0004
C18_Witness ==
    /\ Evaluated({"Custom"})
    /\ rules[1].condition.operator = "=="
    /\ rules[1].condition.threshold = F(50)
    /\ "load" \in DOMAIN metrics
    /\ metrics["load"] = 500004
    /\ result = "triggered"

(***************************************************************************)
(* Properties of the commands                                              *)
(***************************************************************************)
RecognizedConditionTags == {"cpu_usage", "memory_usage", "disk_usage", "cpu_temperature"}
RecognizedSeverityTags == {"Info", "Warning", "Error", "Critical"}

\* C19: add_alert_rule called with a condition-type tag or a severity tag that
\* is not recognized returns an error and leaves the rule set as it was; with
\* recognized tags it returns Ok and the rule set is the previous one followed
\* by one new rule that is enabled, has an id no rule had, no last_triggered
\* and an empty target list.
C19_AddRuleValidation ==
    [][ \A c \in TagInputs, s \in SeverityTagInputs :
           add_alert_rule("user rule", c, F(84), s) =>
              IF c \in RecognizedConditionTags /\ s \in RecognizedSeverityTags
              THEN /\ result' = "Ok"
                   /\ Len(rules') = Len(rules) + 1
                   /\ SubSeq(rules', 1, Len(rules)) = rules
                   /\ Last(rules').enabled
                   /\ ~HasRule(rules, Last(rules').id)
                   /\ Last(rules').last_triggered = None
                   /\ Last(rules').notify_nodes = <<>>
              ELSE /\ result' \in {"Invalid condition type", "Invalid severity"}
                   /\ rules' = rules
      ]_vars

\* after an add that was accepted and a toggle, an add with an unknown
\* severity tag has been rejected
C19_Witness ==
    /\ call.op = "add_alert_rule"
    /\ result = "Invalid severity"
    /\ HasRule(rules, RuleUuid(1))
    /\ Len(rules) = Len(default_rules) + 1
    /\ \E k \in 1..Len(rules) : ~rules[k].enabled

\* C20: acknowledge_alert with the id of a record of the store sets the
\* acknowledged flag of that record, leaves every other record as it is and
\* returns Ok; with an id the store does not hold (never created, evicted or
\* cleared) it leaves every record as it is and returns an error.
C20_Acknowledge ==
    [][ \A id \in RecordIdInputs :
           acknowledge_alert(id) =>
              IF \E k \in 1..Len(records) : records[k].id = id
              THEN /\ result' = "Ok"
                   /\ Len(records') = Len(records)
                   /\ \A k \in 1..Len(records) :
                         records'[k] = IF records[k].id = id
                                       THEN [records[k] EXCEPT !.acknowledged = TRUE]
                                       ELSE records[k]
              ELSE /\ result' = "Alert record not found"
                   /\ records' = records
      ]_vars

\* the first record has been evicted from a store of capacity 2 and the third
\* acknowledged; the acknowledgement of the first has just been refused
C20_Witness ==
    /\ call.op = "acknowledge_alert"
    /\ call.record_id = RecordUuid(1)
    /\ ~call.known
    /\ result = "Alert record not found"
    /\ max_records = 2
    /\ added = <<RecordUuid(1), RecordUuid(2), RecordUuid(3)>>
    /\ RecordIds(records) = <<RecordUuid(2), RecordUuid(3)>>
    /\ ~records[1].acknowledged
    /\ records[2].acknowledged

\* C21: a record of the alert history keeps its id, rule id, rule name,
\* message, severity and timestamp for as long as it is in the store; a record
\* enters the store with acknowledged = FALSE; and the acknowledged flag of a
\* record in the store never goes back from TRUE to FALSE.
C21_RecordsImmutable ==
    [][ /\ \A k \in 1..Len(records) : \A j \in 1..Len(records') :
              records[k].id = records'[j].id =>
                 /\ records'[j].rule_id = records[k].rule_id
                 /\ records'[j].rule_name = records[k].rule_name
                 /\ records'[j].message = records[k].message
                 /\ records'[j].severity = records[k].severity
                 /\ records'[j].timestamp = records[k].timestamp
                 /\ records[k].acknowledged => records'[j].acknowledged
        /\ \A j \in 1..Len(records') :
              (\A k \in 1..Len(records) : records[k].id # records'[j].id)
                 => ~records'[j].acknowledged
      ]_vars

\* a record that was already acknowledged has just been acknowledged again and
\* is still acknowledged, next to a younger record that is not
C21_Witness ==
    /\ call.op = "acknowledge_alert"
    /\ call.known
    /\ call.already
    /\ result = "Ok"
    /\ Len(records) = 2
    /\ records[1].id = call.record_id
    /\ records[1].acknowledged
    /\ ~records[2].acknowledged
    /\ records[2].timestamp > records[1].timestamp

\* C22: a dispatch ends after one attempt per resolved target, whatever the
\* outcomes; a dispatch that has started its deliveries ends; a tick that has
\* taken the rule-set lock releases it; and a tick that has collected its
\* snapshot comes back to the ticker, from where the next tick starts.
C22_BoundedDelivery ==
    /\ [](npc = "done" =>
            Len(attempts) = Len(resolve_targets(registryAtDispatch, nargs.target_node_ids)))
    /\ (npc = "deliver") ~> (npc = "done")
    /\ (npc = "deliver" /\ targets # <<>> /\ attempts # <<>>
           /\ Last(attempts).outcome = "send_error")
          ~> (npc = "done" /\ Len(attempts) = Len(registryAtDispatch))
    /\ (rulesLock = "tick") ~> (rulesLock = "free")
    /\ (pc = "collected") ~> (pc = "sleep")

\* a second tick is under way after a first one that triggered two rules,
\* and the delivery to the first of two peers has just failed to connect
C22_Witness ==
    /\ Len(rules) = Len(default_rules) + 1
    /\ rules[1].last_triggered.some
    /\ rules[Len(rules)].last_triggered.some
    /\ timestamp > rules[1].last_triggered.v
    /\ rulesLock = "tick"
    /\ npc = "deliver"
    /\ Len(registryAtDispatch) = 2
    /\ Len(attempts) = 1
    /\ attempts[1].outcome = "send_error"
    /\ Len(targets) = 1

\* C23: while a delivery to a peer is in flight the rule-set lock is free,
\* so that the rule commands, which take that lock, do not wait for the
\* deliveries of the dispatch (the history lock is taken and dropped inside
\* the record step, and the tick never takes the metric-store lock).
C23_NoLockAcrossDelivery ==
    (npc = "deliver" /\ targets # <<>>) => rulesLock = "free"

FanStatuses == {"Unknown", "Stopped", "SlowSpeed", "Running"}

\* the readings each status is promised for
FanCase(rpm, threshold) ==
    [Unknown   |-> ~rpm.some,
     Stopped   |-> rpm.some /\ FLe(rpm.v, 0),
     SlowSpeed |-> rpm.some /\ FGt(rpm.v, 0) /\ FLt(rpm.v, threshold),
     Running   |-> rpm.some /\ FGe(rpm.v, threshold)]

BetweenTriggers == pc \in {"sleep", "collected", "eval", "record"}

\* C25: for every rule that fires in a tick one record is appended, then one
\* dispatch is made, whose local notification goes out before its first peer
\* delivery, then the rule is stamped: records appended, dispatches made and
\* stamps written are equal in number whenever no trigger is under way (one
\* stamp is owed while the dispatch runs), a delivery is attempted only after
\* the record and the local notification of its alert, a rule is stamped only
\* after its dispatch has returned, and within a tick the scan only moves
\* forward through the rule list, so records are appended in rule-list order.
C25_OneRecordOneDispatch ==
    /\ [](/\ recUuids = dispatches
          /\ Len(records) = recUuids
          /\ BetweenTriggers => stamps = dispatches
          /\ pc = "notify" => stamps + 1 = dispatches)
    /\ [][ /\ records' # records =>
                /\ pc = "record"
                /\ records' = Append(records, Last(records'))
                /\ Last(records').rule_id = rules[idx].id
                /\ dispatches' = dispatches + 1
                /\ nargs'.alert_id = rules[idx].id
                /\ ~rules[idx].last_triggered.some
                       \/ rules[idx].last_triggered.v < timestamp
           /\ attempts' # attempts /\ attempts' # <<>> =>
                /\ shown = nargs.alert_id
                /\ Last(records).rule_id = nargs.alert_id
                /\ stamps + 1 = dispatches
           /\ stamps' # stamps =>
                /\ stamps' = stamps + 1
                /\ npc = "done"
                /\ Last(records).rule_id = rules[idx].id
                /\ rules'[idx].last_triggered = Some(timestamp)
                /\ idx' = idx + 1
           /\ rulesLock = "tick" /\ rulesLock' = "tick" => idx' >= idx
      ]_vars

\* a tick in which two rules fired is over: two records in rule-list order,
\* two dispatches, two stamps
C25_Witness ==
    /\ pc = "sleep"
    /\ Len(rules) = Len(default_rules) + 1
    /\ Len(records) = 2
    /\ records[1].rule_id = rules[1].id
    /\ records[2].rule_id = rules[Len(rules)].id
    /\ records[1].timestamp = records[2].timestamp
    /\ dispatches = 2
    /\ stamps = 2

\* the browse thread has handled an event in this step
Handling == handled' # handled

WellFormed(service_info) ==
    TxtKeys \subseteq DOMAIN service_info.properties /\ service_info.addresses # {}

\* the full name of the service a peer of the map advertises: its instance
\* name is the host name it also announces as the property "name"
AdvertisedService(node) == node.name \o ServiceType

\* C26: after a well-formed Resolved event whose id is not the local one has
\* been handled, the map has one entry for that id, with the name, an address
\* (an IPv4 one if the event has any), the port, the OS and the version of
\* the event, last_heartbeat = now and status Online; a known id has its
\* entry replaced, and the entries of the other ids are as they were.
C26_ResolvedUpsert ==
    [][ LET event == Head(channel)
            properties == event.info.properties
        IN  (/\ Handling
             /\ event.kind = "ServiceResolved"
             /\ WellFormed(event.info)
             /\ properties["id"] # LocalNodeId) =>
               /\ DOMAIN discovered_nodes' = DOMAIN discovered_nodes \cup {properties["id"]}
               /\ \A k \in DOMAIN discovered_nodes' :
                     discovered_nodes'[k].id = properties["id"] => k = properties["id"]
               /\ LET entry == discovered_nodes'[properties["id"]]
                  IN  /\ entry.id = properties["id"]
                      /\ entry.name = properties["name"]
                      /\ entry.os_info = properties["os_info"]
                      /\ entry.version = properties["version"]
                      /\ entry.ip_address \in event.info.addresses
                      /\ (\E ip \in event.info.addresses : ip.family = "V4")
                            => entry.ip_address.family = "V4"
                      /\ entry.api_port = event.info.port
                      /\ entry.last_heartbeat = timestamp
                      /\ entry.status = "Online"
               /\ \A k \in DOMAIN discovered_nodes \ {properties["id"]} :
                     discovered_nodes'[k] = discovered_nodes[k]
      ]_vars

\* node-a, resolved at time 0, has been resolved again 15 s later at a new
\* address and port: one entry for node-a, the new one, next to node-b's
C26_Witness ==
    /\ Len(handled) = 3
    /\ handled[1].kind = "ServiceResolved" /\ handled[1].info.properties["id"] = "node-b"
    /\ handled[2].kind = "ServiceResolved" /\ handled[2].info.port = 3030
    /\ handled[2].info.properties["id"] = "node-a"
    /\ handled[3].kind = "ServiceResolved" /\ handled[3].info.port = 3031
    /\ handled[3].info.properties["id"] = "node-a"
    /\ DOMAIN discovered_nodes = {"node-a", "node-b"}
    /\ discovered_nodes["node-a"].api_port = 3031
    /\ discovered_nodes["node-a"].ip_address = V4("192.168.1.20")
    /\ discovered_nodes["node-a"].last_heartbeat = 15
    /\ discovered_nodes["node-b"].ip_address = V6("fe80::b")
    /\ discovered_nodes["node-b"].last_heartbeat = 0

\* C27: a Removed event removes from the map exactly the entries whose name
\* followed by the service type is the full name of the removed service, and
\* leaves every other entry as it was.
C27_RemovedByServiceName ==
    [][ LET event == Head(channel)
        IN  (Handling /\ event.kind = "ServiceRemoved") =>
               /\ DOMAIN discovered_nodes' =
                     {k \in DOMAIN discovered_nodes :
                         discovered_nodes[k].name \o ServiceType # event.fullname}
               /\ \A k \in DOMAIN discovered_nodes' :
                     discovered_nodes'[k] = discovered_nodes[k]
      ]_vars

\* alpha's service has been removed after node-a (alpha) and node-b (beta)
\* were resolved: node-b alone is left, as it was
C27_Witness ==
    /\ Len(handled) = 3
    /\ handled[3] = Removed("alpha" \o ServiceType)
    /\ \E i, j \in 1..2 :
          /\ handled[i].kind = "ServiceResolved" /\ handled[i].info.properties["id"] = "node-a"
          /\ handled[j].kind = "ServiceResolved" /\ handled[j].info.properties["id"] = "node-b"
    /\ DOMAIN discovered_nodes = {"node-b"}
    /\ discovered_nodes["node-b"].name = "beta"

\* C28: for two peers of the map with distinct ids, the Removed event of the
\* first peer's advertised service takes the first peer out of the map and
\* leaves the second in it.
C28_RemovedOnlyThatPeer ==
    [][ LET event == Head(channel)
        IN  (Handling /\ event.kind = "ServiceRemoved") =>
               \A first, second \in DOMAIN discovered_nodes :
                  (/\ first # second
                   /\ event.fullname = AdvertisedService(discovered_nodes[first])) =>
                     /\ first \notin DOMAIN discovered_nodes'
                     /\ second \in DOMAIN discovered_nodes'
      ]_vars

\* C29: a Resolved event that lacks one of the properties id, name, os_info
\* and version, or has no address, and an event that is neither Resolved nor
\* Removed, leave the map as it was, and the browse thread goes on receiving;
\* this holds of the events on the channel and, in every state, of every
\* malformed service and every other kind of event.
C29_MalformedEventsIgnored ==
    /\ [][ LET event == Head(channel)
           IN  (/\ Handling
                /\ \/ event.kind = "ServiceResolved" /\ ~WellFormed(event.info)
                   \/ event.kind \notin {"ServiceResolved", "ServiceRemoved"}) =>
                  /\ discovered_nodes' = discovered_nodes
                  /\ bpc' = "recv"
         ]_vars
    /\ [](/\ \A info \in MalformedServices :
                handle_service_event(discovered_nodes, Resolved(info), LocalNodeId,
                                     timestamp) = discovered_nodes
          /\ \A kind \in OtherKinds :
                handle_service_event(discovered_nodes, Other(kind), LocalNodeId,
                                     timestamp) = discovered_nodes)

\* 15 s after node-b was resolved, its service without a version and a
\* SearchStarted event have been handled: node-b's entry still has its first
\* heartbeat and the thread is receiving
C29_Witness ==
    /\ Len(handled) = 3
    /\ handled[1].kind = "ServiceResolved" /\ WellFormed(handled[1].info)
    /\ handled[1].info.properties["id"] = "node-b"
    /\ handled[2] = Resolved(ServiceWithout("version"))
    /\ handled[3] = Other("SearchStarted")
    /\ timestamp = 15
    /\ DOMAIN discovered_nodes = {"node-b"}
    /\ discovered_nodes["node-b"].last_heartbeat = 0
    /\ discovered_nodes["node-b"].version = "0.1.0"
    /\ bpc = "recv"

\* the events the daemon has sent so far, in the order of the channel
Sent == handled \o channel

\* C30: a poll that times out is followed by another poll; the events are
\* handled in the order of the channel, none skipped; and while the channel
\* is open every event put on it is eventually handled.
C30_BrowseLoop ==
    /\ (bpc = "timeout") ~> (bpc = "recv")
    /\ [][ /\ Handling => handled' = Append(handled, Head(channel))
           /\ \E more \in {<<>>} \cup {<<event>> : event \in Events} :
                 handled' \o channel' = Sent \o more
         ]_vars
    /\ \A n \in 1..MaxEvents :
          (Len(Sent) >= n) ~> (Len(handled) >= n \/ daemon = "shutdown")

\* three events have been handled in the order they were sent, the channel
\* is open and empty, and the last poll has timed out
C30_Witness ==
    /\ handled = << Other("SearchStarted"),
                    Resolved(ServiceInfo(Txt("node-a", "alpha"), {V4("192.168.1.10")}, 3030)),
                    Removed("alpha" \o ServiceType) >>
    /\ channel = <<>>
    /\ daemon = "running"
    /\ bpc = "timeout"
    /\ DOMAIN discovered_nodes = {}

C32_AgeSweep ==
    [][ \A age \in SweepAges :
           MetricsCleanup(age) =>
              LET cutoff == timestamp_millis - age * 1000
                  NotOlder(p) == p.timestamp >= cutoff
              IN  /\ DOMAIN data' = DOMAIN data
                  /\ \A m \in DOMAIN data : data'[m] = SelectSeq(data[m], NotOlder)
      ]_vars

\* the numbers of points get_average is asked for
LastNInputs == 0..3

\* C33: get_average(metric, last_n) is none iff the metric has no retained
\* point; otherwise it is the mean of the last min(last_n, len) retained
\* points, a number for every last_n, last_n = 0 included.
C33_Average ==
    \A m \in MetricNames \cup {"never_observed"} : \A last_n \in LastNInputs :
       LET average == get_average(data, m, last_n)
           points == Points(data, m)
           n == IF last_n < Len(points) THEN last_n ELSE Len(points)
       IN  /\ average.some <=> points # <<>>
           /\ average.some =>
                 /\ ~IsNaN(average.v)
                 /\ n > 0 => average.v = SumValues(LastN(points, n)) \div n

\* two snapshots agree on a key: both lack it, or both hold it with one value
AgreeOn(m1, m2, keys) ==
    \A key \in keys :
       /\ Has(m1, key) <=> Has(m2, key)
       /\ Has(m1, key) => m1[key] = m2[key]

Answer(rule, snapshot, now) ==
    IF should_trigger(rule, snapshot, now) THEN "triggered" ELSE "not triggered"

\* the metrics the arm of a non-custom condition reads
BoundMetrics(tag) ==
    CASE tag \in ThresholdTags -> {BoundMetric(tag)}
      [] tag = "FanStopped" -> {"fans_stopped_count"}
      [] tag = "FanSlowSpeed" -> {"fans_slow_speed_count"}
      [] tag = "DiskHealthWarning" -> {"disk_warning_count", "disk_critical_count"}
      [] tag = "VoltageAbnormal" -> {"voltage_abnormal_count"}
      [] tag = "MemoryErrors" -> {"memory_uncorrectable_errors"}

nonLockVars == <<nowMs, engineVars, storeVars, notifierVars, uiVars, metricsVars,
                 discoveryVars, browseVars, monitorVars, ghostVars>>

\* the await point a running task is at
Op(t) == Scripts[job[t]][tpc[t]]

\* the position after position k of job j; 0 when the job is over
After(j, k) == IF k < Len(Scripts[j]) THEN k + 1 ELSE 0

\* the queues once task t has arrived at position k of job j
Enter(t, j, k, q) ==
    IF k > 0 /\ Scripts[j][k].op = "acq"
    THEN [q EXCEPT ![Scripts[j][k].lock] = Append(@, t)]
    ELSE q

\* the guards once task t has dropped its guards on the locks of `release`
Drop(t, release, h) ==
    [l \in Locks |-> IF l \in release THEN h[l] \ {<<t, "read">>, <<t, "write">>} ELSE h[l]]

\* the semaphore of a tokio RwLock: a writer needs every permit, a reader one
Compatible(l, mode) ==
    IF mode = "write" THEN held[l] = {} ELSE \A g \in held[l] : g[2] = "read"

\* interval.tick() returns, a request or a command arrives, recv() returns an event
Wake(t, j) ==
    /\ tpc[t] = 0
    /\ j \in Jobs(t)
    /\ job' = [job EXCEPT ![t] = j]
    /\ tpc' = [tpc EXCEPT ![t] = 1]
    /\ queue' = Enter(t, j, 1, queue)
    /\ UNCHANGED <<held, nonLockVars>>

\* what Grant(t) does to the locks
GrantStep(t) ==
    /\ tpc[t] > 0
    /\ Op(t).op = "acq"
    /\ LET l == Op(t).lock
           k == After(job[t], tpc[t])
       IN /\ IF l \in Unordered
             THEN \E i \in 1..Len(queue[l]) : queue[l][i] = t
             ELSE queue[l] # <<>> /\ Head(queue[l]) = t
          /\ Compatible(l, Op(t).mode)
          /\ held' = Drop(t, Op(t).release,
                          [held EXCEPT ![l] = @ \cup {<<t, Op(t).mode>>}])
          /\ queue' = Enter(t, job[t], k,
                            [queue EXCEPT ![l] = SelectSeq(@, LAMBDA u : u # t)])
          /\ tpc' = [tpc EXCEPT ![t] = k]
    /\ UNCHANGED job

\* what Complete(t) does to the locks
CompleteStep(t) ==
    /\ tpc[t] > 0
    /\ Op(t).op = "await"
    /\ LET k == After(job[t], tpc[t])
       IN /\ held' = Drop(t, Op(t).release, held)
          /\ queue' = Enter(t, job[t], k, queue)
          /\ tpc' = [tpc EXCEPT ![t] = k]
    /\ UNCHANGED job

\* the lock request of task t is granted; t runs on to its next await point
Grant(t) == GrantStep(t) /\ UNCHANGED nonLockVars

\* the delivery of task t is over; t runs on to its next await point
Complete(t) == CompleteStep(t) /\ UNCHANGED nonLockVars

NextLocks ==
    \/ \E t \in Tasks : \E j \in Jobs(t) : Wake(t, j)
    \/ \E t \in Tasks : Grant(t)
    \/ \E t \in Tasks : Complete(t)

SpecLocks == Init /\ [][NextLocks]_vars

\* The runtime polls every task that can run.  A delivery ends (the client
\* times out).  A waiter of the std Mutex gets it at one of the times the
\* Mutex is free.
SpecLocksFair ==
    /\ SpecLocks
    /\ \A t \in Tasks \ {"refresh", "browse"} : WF_lockVars(GrantStep(t) \/ CompleteStep(t))
    /\ \A t \in {"refresh", "browse"} : SF_lockVars(GrantStep(t) \/ CompleteStep(t))

InQueue(t, l) == \E i \in 1..Len(queue[l]) : queue[l][i] = t

Holds(t, l) == <<t, "read">> \in held[l] \/ <<t, "write">> \in held[l]

Waiting(t) == tpc[t] > 0 /\ Op(t).op = "acq"

\* task t cannot get the lock it waits for before task u lets go of it or gets it
WaitsFor(t, u) ==
    /\ Waiting(t)
    /\ LET l == Op(t).lock
       IN \/ <<u, "write">> \in held[l]
          \/ <<u, "read">> \in held[l] /\ Op(t).mode = "write"
          \/ /\ l \notin Unordered
             /\ \E i, k \in 1..Len(queue[l]) : i < k /\ queue[l][i] = u /\ queue[l][k] = t

\* the largest subset of S in which every task waits for a task of the subset
RECURSIVE Knot(_)
Knot(S) ==
    LET inner == {t \in S : \E u \in S : WaitsFor(t, u)}
    IN IF inner = S THEN S ELSE Knot(inner)

NoCircularWait == Knot({t \in Tasks : Waiting(t)}) = {}

\* C35: no reachable state has a set of tasks each waiting for a lock held by
\* (or requested before it by) another task of the set, and under fair
\* scheduling every lock request is eventually granted: no task stays at its
\* lock requests for ever.
C35_DeadlockFreedom ==
    /\ []NoCircularWait
    /\ \A t \in Tasks : []<>~Waiting(t)

\* the tick is delivering under its three guards while the refresh task, the
\* sync task and two commands wait in line
C35_Witness ==
    /\ tpc["tick"] > 0 /\ Op("tick").op = "await"
    /\ Holds("tick", "rules") /\ Holds("tick", "discovered_nodes")
    /\ InQueue("refresh", "discovered_nodes")
    /\ Holds("http", "cpu_monitor") /\ InQueue("http", "memory_monitor")
    /\ Holds("metrics", "metrics_store") /\ InQueue("metrics", "cpu_monitor")
    /\ Holds("ui", "alert_engine") /\ InQueue("ui", "rules")


\* the last thing that happened to the discovery map is a sweep
AfterSweep == call.op = "cleanup_offline_nodes"

\* the peers that sweep removed
SweptPeers == DOMAIN call.before \ DOMAIN discovered_nodes

\* C36: at the end of every discovery refresh cycle the list the Notifier
\* reads holds exactly the peers of the discovery map, and a dispatch that
\* starts after a sweep has removed a peer resolves no target among the
\* removed peers.
C36_SweptPeerNotTarget ==
    /\ [](AfterSweep /\ rpc = "sleep" =>
             {remote_nodes[i] : i \in 1..Len(remote_nodes)}
                = {discovered_nodes[k] : k \in DOMAIN discovered_nodes})
    /\ [][npc = "start" /\ npc' = "deliver" /\ AfterSweep =>
             \A i \in 1..Len(targets') : targets'[i].id \notin SweptPeers]_vars


(***************************************************************************)
(* network/api.rs: the alerts/notify route, on a node whose engine runs    *)
(***************************************************************************)
MaxInbound == 2

AlertNotification(source_node_id, source_node_name, alert_type, severity) ==
    [source_node_id |-> source_node_id, source_node_name |-> source_node_name,
     alert_type |-> alert_type, severity |-> severity]

\* what peers post: an alert of a peer, and this node's own alert coming back
InboundAlerts ==
    { AlertNotification("node-a", "alpha", "cpu_high", "Warning"),
      AlertNotification(LocalNodeId, "localhost", "cpu_high", "Warning") }

\* the target the binary was built for, and what Notification::show() returned
Builds == {"linux", "other"}
ShowResults == {"ok", "error"}

\* #[cfg(not(target_os = "linux"))] { let _ = Notification::new()...show(); }
Presented(build, show) ==
    IF build = "linux" THEN "nothing" ELSE IF show = "ok" THEN "shown" ELSE "failed"

\* the number of POST /alerts/notify handled so far
InboundCount == IF call.op = "alerts_notify" THEN call.n ELSE 0

\* the log entry of a handled POST /alerts/notify
InboundOf(alert, build, show) ==
    [op |-> "alerts_notify", alert |-> alert, build |-> build,
     presented |-> Presented(build, show), n |-> InboundCount + 1]

\* a handler that passes the alert on to this node's peers
alerts_notify_forwarding(alert, build, show) ==
    /\ InboundCount < MaxInbound
    /\ npc = "idle"
    /\ call' = InboundOf(alert, build, show)
    /\ result' = "Alert received"
    /\ npc' = "start"
    /\ nargs' = [alert_id |-> alert.alert_type, alert_name |-> alert.alert_type,
                 severity |-> alert.severity, target_node_ids |-> <<>>]
    /\ UNCHANGED <<nowMs, engineVars, storeVars, remote_nodes, remoteReaders, targets,
                   attempts, registryAtDispatch, metricsVars, discoveryVars, browseVars,
                   monitorVars, ghostVars, lockVars>>

\* the route: log the alert, show it where the build can, reply ok
alerts_notify(alert, build, show) ==
    /\ InboundCount < MaxInbound
    /\ call' = InboundOf(alert, build, show)
    /\ result' = "Alert received"
    /\ UNCHANGED <<nowMs, engineVars, storeVars, notifierVars, metricsVars, discoveryVars,
                   browseVars, monitorVars, ghostVars, lockVars>>

NextInbound ==
    \/ \E d \in ClockSteps : AdvanceClock(d)
    \/ TickCollect(Reading(F(85), None))
    \/ TickLock
    \/ TickEval
    \/ TickRecord
    \/ send_alert_begin
    \/ \E o \in Outcomes : send_network_notification(o)
    \/ send_alert_end
    \/ TickMark
    \/ TickRelease
    \/ \E nodes \in {<<>>, <<PeerA>>} : update_remote_nodes(nodes)
    \/ \E alert \in InboundAlerts, build \in Builds, show \in ShowResults :
          alerts_notify(alert, build, show)

SpecInbound == Init /\ [][NextInbound]_vars

\* the step is the handling of a POST /alerts/notify
Inbound == call' # call /\ call'.op = "alerts_notify"

\* what the handler must leave alone: the rule set, the alert history, both
\* peer registries, and the notifier with its deliveries
InboundFrame ==
    /\ rules' = rules
    /\ records' = records
    /\ remote_nodes' = remote_nodes
    /\ discovered_nodes' = discovered_nodes
    /\ npc' = npc /\ nargs' = nargs /\ targets' = targets /\ attempts' = attempts
    /\ dispatches' = dispatches
    /\ pc' = pc

\* C37 as stated: handling POST /alerts/notify presents a local notification
\* and replies ok, and changes no rule, no history record and no registry
\* entry and starts no outbound delivery.
C37_InboundNeverFansOut ==
    [][Inbound => /\ call'.presented = "shown"
                  /\ result' = "Alert received"
                  /\ InboundFrame]_vars

\* C37: handling POST /alerts/notify replies ok, tries to present a local
\* notification exactly when the build is not for Linux (what show() returns
\* is ignored), and changes no rule, no history record and no registry entry
\* and starts no outbound delivery.
C37_InboundHandledLocally ==
    [][Inbound => /\ call'.presented # "nothing" <=> call'.build # "linux"
                  /\ result' = "Alert received"
                  /\ InboundFrame]_vars

\* this node's own alert has come back while its engine is delivering the
\* next one; the handler showed it and nothing else moved
C37_Witness ==
    /\ call.op = "alerts_notify"
    /\ call.alert.source_node_id = LocalNodeId
    /\ call.presented = "shown"
    /\ result = "Alert received"
    /\ npc = "deliver" /\ attempts # <<>>
    /\ dispatches = 1


(***************************************************************************)
(* The snapshots the engine can collect from its monitors, and the ticks   *)
(* it runs on them                                                         *)
(***************************************************************************)
\* monitors/fan.rs extract_fan_rpm: no platform reads a fan speed yet
extract_fan_rpm(label) == None

\* the components whose label contains "fan"
FanLabelSets == { {}, {"cpu_fan", "fan1"} }

\* monitors/fan.rs get_info: the fans counted by status
get_info(labels) ==
    LET status(label) == determine_fan_status(extract_fan_rpm(label),
                                              DefaultSlowSpeedThreshold)
    IN  [stopped_count |-> Cardinality({l \in labels : status(l) = "Stopped"}),
         slow_speed_count |-> Cardinality({l \in labels : status(l) = "SlowSpeed"}),
         total_count |-> Cardinality(labels)]

\* what the five monitors of the engine can report: loads from idle to
\* full, temperature sensors present or not
MonitorReadings ==
    { [cpu_usage |-> cpu, memory_usage_percent |-> memory, memory_used_gb |-> F(6),
       disk_usage_percent |-> disk, cpu_avg_temp |-> cpu_temp, chipset_temp |-> chipset,
       stopped_count |-> get_info(labels).stopped_count,
       slow_speed_count |-> get_info(labels).slow_speed_count,
       total_count |-> get_info(labels).total_count] :
         cpu \in {F(10), F(99)}, memory \in {F(40), F(90)},
         disk \in {F(55), F(95)}, cpu_temp \in {None, Some(F(90))},
         chipset \in {None, Some(F(75))}, labels \in FanLabelSets }

NextCollect ==
    \/ \E r \in MonitorReadings : TickCollect(r)
    \/ TickLock
    \/ TickEval
    \/ TickRecord
    \/ send_alert_begin
    \/ send_alert_end
    \/ TickMark
    \/ TickRelease

SpecCollect == Init /\ [][NextCollect]_vars

\* the metrics a condition reads
MetricsRead(tag) ==
    CASE tag = "FanStopped" -> {"fans_stopped_count"}
      [] tag = "FanSlowSpeed" -> {"fans_slow_speed_count"}
      [] tag = "DiskHealthWarning" -> {"disk_warning_count", "disk_critical_count"}
      [] tag = "VoltageAbnormal" -> {"voltage_abnormal_count"}
      [] tag = "MemoryErrors" -> {"memory_uncorrectable_errors"}
      [] OTHER -> {BoundMetric(tag)}

\* C38: for each rule of default_rules, a metric its condition is bound to is
\* a key of a snapshot the engine can collect, and the rule triggers on one
\* of the snapshots the engine can collect.
C38_EveryDefaultRuleCanFire ==
    rules = default_rules =>
        \A k \in 1..Len(rules) :
            \E r \in MonitorReadings :
                /\ MetricsRead(rules[k].condition.tag) \cap DOMAIN collect_metrics(r) # {}
                /\ should_trigger(rules[k], collect_metrics(r), timestamp)


(***************************************************************************)
(* The engine with rules switched off and on between its ticks; each       *)
(* toggle is logged with the rule set it was called on                     *)
(***************************************************************************)
ToggledIds == {"cpu_high", "memory_high", "no_such_rule"}

ToggleCall(rule_id, enabled) ==
    [op |-> "toggle_rule", rule_id |-> rule_id, enabled |-> enabled, before |-> rules]

NextToggle ==
    \/ \E d \in ClockSteps : AdvanceClock(d)
    \/ TickCollect(Reading(F(85), None))
    \/ TickLock
    \/ TickEval
    \/ TickRecord
    \/ send_alert_begin
    \/ send_alert_end
    \/ TickMark
    \/ TickRelease
    \/ \E id \in ToggledIds, e \in BOOLEAN :
          Logged(toggle_alert_rule(id, e), ToggleCall(id, e))

SpecToggle == Init /\ [][NextToggle]_vars

\* the step is a call of toggle_rule
ToggleStep == call' # call /\ call'.op = "toggle_rule"

\* the rule toggle_rule finds for that id: the first one, 0 when there is none
Named(rs, rule_id) ==
    IF HasRule(rs, rule_id)
    THEN CHOOSE k \in 1..Len(rs) :
            /\ rs[k].id = rule_id
            /\ \A j \in 1..(k - 1) : rs[j].id # rule_id
    ELSE 0

\* the time in seconds of the records the history holds for that rule
RecordedAt(rule_id) ==
    { records[k].timestamp \div 1000 : k \in {j \in 1..Len(records) : records[j].rule_id = rule_id} }

\* C39: toggle_rule sets the enabled flag of the named rule and changes
\* nothing else: every other rule, and every other field of the named rule,
\* last_triggered included, is as before; so a rule that is switched off and
\* on again inside its cooldown window is not triggered again before
\* cooldown_seconds have passed since it was last triggered.
C39_ToggleOnlyEnabled ==
    [][ /\ ToggleStep =>
              /\ Len(rules') = Len(rules)
              /\ \A k \in 1..Len(rules) :
                    IF k = Named(rules, call'.rule_id)
                    THEN rules'[k] = [rules[k] EXCEPT !.enabled = call'.enabled]
                    ELSE rules'[k] = rules[k]
        /\ RecordStep =>
              \A t \in RecordedAt(rules[idx].id) :
                 timestamp - t >= rules[idx].cooldown_seconds
      ]_vars

\* cpu_high, triggered at 0, was switched off and is switched on again at
\* 150 s with its stamp intact; the tick that now evaluates it finds it
\* enabled with its condition true, and passes it over
C39_Witness ==
    /\ call.op = "toggle_rule"
    /\ call.rule_id = "cpu_high"
    /\ call.enabled
    /\ ~call.before[1].enabled
    /\ call.before[1].last_triggered = Some(0)
    /\ rules[1].id = "cpu_high"
    /\ rules[1].enabled
    /\ rules[1].last_triggered = Some(0)
    /\ timestamp = 150
    /\ pc = "eval"
    /\ idx = 1
    /\ condition_holds(rules[1].condition, metrics)
    /\ ~should_trigger(rules[1], metrics, timestamp)
    /\ RecordedAt("cpu_high") = {0}

====
